---- MODULE Spec2Model ----
(***************************************************************************)
(* A model of obsidian-connect-mcp: the .mcpignore engine, the security    *)
(* manager, the vault and edit tools, the structural patch functions, the  *)
(* fuzzy matcher and the HTTP session router.                              *)
(*                                                                         *)
(* Text (paths, patterns, note content) is a sequence of one-character     *)
(* strings; "\n" is the newline character.                                 *)
(***************************************************************************)
EXTENDS Integers, Sequences, FiniteSets, TLC

VARIABLES
    vault,          \* app.vault: path -> content of the file, or NoFile
    folders,        \* app.vault: the folders that exist
    patterns,       \* McpIgnoreManager.patterns
    enabled,        \* McpIgnoreManager.enabled
    loadPc,         \* McpIgnoreManager.load: "idle", or "read" while awaiting vault.read
    readOnlyMode,   \* SecurityManager._readOnlyMode
    isRunning,      \* McpHttpServer.isRunning
    reqs,           \* tool calls in flight: slot -> the handler's frame, or Idle
    nWrites,        \* number of write-tool calls made so far
    transports,     \* McpHttpServer.transports: session id -> transport instance
    instances,      \* the StreamableHTTPServerTransport objects created so far
    connecting,     \* new sessions awaiting mcpServer.connect(transport)
    issued,         \* the session ids randomUUID has returned, in order
    http,           \* the last HTTP exchange on /mcp: request and response
    pin,            \* the arguments of a call of a patch function
    pout,           \* its result
    allowCommandExecution,  \* plugin.settings.allowCommandExecution
    tools,          \* McpHttpServer.tools: the names registered
    commands,       \* app.commands.listCommands(): the ids listed now
    executed        \* the ids handed to app.commands.executeCommandById, in order

\* the vault, the security manager and the tool calls
ToolVars == <<vault, folders, patterns, enabled, loadPc, readOnlyMode, isRunning,
              reqs, nWrites, allowCommandExecution, tools, commands, executed>>
\* the session router
SessionVars == <<transports, instances, connecting, issued, http>>
\* a call of a patch function
PatchVars == <<pin, pout>>

\* the tool registry and the commands of the application
CommandVars == <<allowCommandExecution, tools, commands, executed>>

Others == <<SessionVars, PatchVars, CommandVars>>

vars == <<ToolVars, SessionVars, PatchVars>>

-----------------------------------------------------------------------------
(* JavaScript string primitives                                            *)

NL == "\n"

Min(a, b) == IF a < b THEN a ELSE b
Max(a, b) == IF a > b THEN a ELSE b

\* String.prototype.slice(from, to) with 0-based, end-exclusive, clamped indices
Slice(s, from, to) ==
    LET a == Max(0, Min(from, Len(s)))
        b == Max(a, Min(to, Len(s)))
    IN  [i \in 1..(b - a) |-> s[a + i]]

SliceFrom(s, from) == Slice(s, from, Len(s))

\* String.prototype.startsWith
StartsWith(s, pre) ==
    /\ Len(pre) <= Len(s)
    /\ \A i \in 1..Len(pre) : s[i] = pre[i]

\* String.prototype.endsWith
EndsWith(s, suf) ==
    /\ Len(suf) <= Len(s)
    /\ \A i \in 1..Len(suf) : s[Len(s) - Len(suf) + i] = suf[i]

\* sub occurs in s at 0-based offset k
OccursAt(s, sub, k) ==
    /\ k >= 0
    /\ k + Len(sub) <= Len(s)
    /\ \A i \in 1..Len(sub) : s[k + i] = sub[i]

\* String.prototype.indexOf(sub, from): the first 0-based offset, or -1
IndexOf(s, sub, from) ==
    LET hits == {k \in Max(0, from)..Len(s) : OccursAt(s, sub, k)}
    IN  IF hits = {} THEN -1 ELSE CHOOSE k \in hits : \A m \in hits : k <= m

\* String.prototype.includes
Includes(s, sub) == IndexOf(s, sub, 0) # -1

IsSpace(c) == c \in {" ", NL, "\t"}

\* String.prototype.trimEnd
RECURSIVE TrimEnd(_)
TrimEnd(s) ==
    IF s # <<>> /\ IsSpace(s[Len(s)]) THEN TrimEnd(SubSeq(s, 1, Len(s) - 1)) ELSE s

\* String.prototype.trimStart
RECURSIVE TrimStart(_)
TrimStart(s) ==
    IF s # <<>> /\ IsSpace(s[1]) THEN TrimStart(Tail(s)) ELSE s

\* String.prototype.trim
Trim(s) == TrimEnd(TrimStart(s))

\* String.prototype.split("\n"): always at least one element
RECURSIVE SplitLines(_)
SplitLines(s) ==
    LET k == IndexOf(s, <<NL>>, 0)
    IN  IF k = -1 THEN <<s>>
        ELSE <<Slice(s, 0, k)>> \o SplitLines(SliceFrom(s, k + 1))

\* Array.prototype.join("\n")
RECURSIVE JoinLines(_)
JoinLines(ls) ==
    IF ls = <<>> THEN <<>>
    ELSE IF Len(ls) = 1 THEN ls[1]
    ELSE ls[1] \o <<NL>> \o JoinLines(Tail(ls))

Range(seq) == {seq[i] : i \in 1..Len(seq)}

-----------------------------------------------------------------------------
(* McpIgnoreManager: gitignore-style patterns                              *)

DOT == "."
SLASH == "/"

\* the well-known rule file: ".mcpignore"
McpIgnorePath == <<DOT, "m", "c", "p", "i", "g", "n", "o", "r", "e">>

\* characters that the first replace of matchesPattern escapes: /[.+^${}()|[\]\\]/
RegexSpecial == {".", "+", "^", "$", "{", "}", "(", ")", "|", "[", "]", "\\"}

\* A compiled regular expression is a sequence of tokens; src is the token's
\* text in the regular expression source and n the number of characters of it:
\*   lit c    the character c            any    .       ns     [^/]
\*   nsStar   [^/]*                      anyStar .*     bol    ^
\*   litStar c   c*                      bad    a source RegExp rejects
Tok(kind, c, n) == [t |-> kind, c |-> c, n |-> n]

\* .replace(escape) then ** -> {{GLOBSTAR}}, * -> [^/]*, ? -> [^/], {{GLOBSTAR}} -> .*
RECURSIVE Translate(_)
Translate(p) ==
    IF p = <<>> THEN <<>>
    ELSE IF Len(p) >= 2 /\ p[1] = "*" /\ p[2] = "*"
         THEN <<Tok("anyStar", "", 2)>> \o Translate(SliceFrom(p, 2))
    ELSE IF p[1] = "*" THEN <<Tok("nsStar", "", 5)>> \o Translate(Tail(p))
    ELSE IF p[1] = "?" THEN <<Tok("ns", "", 4)>> \o Translate(Tail(p))
    ELSE IF p[1] \in RegexSpecial THEN <<Tok("lit", p[1], 2)>> \o Translate(Tail(p))
    ELSE <<Tok("lit", p[1], 1)>> \o Translate(Tail(p))

\* what is left of one token's source text when its first character is cut off
\* (patterns whose second character is one of $ | [ \ are outside the model)
CutToken(tk) ==
    CASE tk.t = "lit" /\ tk.n = 1 -> <<>>
      [] tk.t = "lit" /\ tk.n = 2 /\ tk.c = DOT -> <<Tok("any", "", 1)>>
      [] tk.t = "lit" /\ tk.n = 2 /\ tk.c = "^" -> <<Tok("bol", "", 1)>>
      [] tk.t = "lit" /\ tk.n = 2 /\ tk.c \in {"{", "}", "]"} -> <<Tok("lit", tk.c, 1)>>
      [] tk.t = "nsStar" -> <<Tok("bol", "", 1), Tok("lit", SLASH, 1), Tok("litStar", "]", 2)>>
      [] tk.t = "ns" -> <<Tok("bol", "", 1), Tok("lit", SLASH, 1), Tok("lit", "]", 1)>>
      [] OTHER -> <<Tok("bad", "", 1)>>

\* regexStr.slice(n) on the source text of a token sequence, n <= 2
RECURSIVE SliceRegex(_, _)
SliceRegex(toks, n) ==
    IF n = 0 \/ toks = <<>> THEN toks
    ELSE IF toks[1].n <= n THEN SliceRegex(Tail(toks), n - toks[1].n)
    ELSE CutToken(toks[1]) \o Tail(toks)

\* the offsets at which a match of toks that starts at offset i of path can end
RECURSIVE Ends(_, _, _)
Ends(toks, path, i) ==
    IF toks = <<>> THEN {i}
    ELSE LET tk == toks[1]
             rest == Tail(toks)
             n == Len(path)
         IN  CASE tk.t = "lit" ->
                    IF i < n /\ path[i + 1] = tk.c THEN Ends(rest, path, i + 1) ELSE {}
               [] tk.t = "any" ->
                    IF i < n /\ path[i + 1] # NL THEN Ends(rest, path, i + 1) ELSE {}
               [] tk.t = "ns" ->
                    IF i < n /\ path[i + 1] # SLASH THEN Ends(rest, path, i + 1) ELSE {}
               [] tk.t = "nsStar" ->
                    UNION {Ends(rest, path, k) :
                           k \in {k \in i..n : \A m \in (i + 1)..k : path[m] # SLASH}}
               [] tk.t = "anyStar" ->
                    UNION {Ends(rest, path, k) :
                           k \in {k \in i..n : \A m \in (i + 1)..k : path[m] # NL}}
               [] tk.t = "litStar" ->
                    UNION {Ends(rest, path, k) :
                           k \in {k \in i..n : \A m \in (i + 1)..k : path[m] = tk.c}}
               [] tk.t = "bol" -> IF i = 0 THEN Ends(rest, path, i) ELSE {}
               [] OTHER -> {}

\* a pattern whose regular expression source new RegExp rejects (matchesPattern
\* catches the error and answers false): a quantifier with nothing to repeat
Rejected(toks) ==
    \E k \in 1..Len(toks) : toks[k].t = "bad"

\* McpIgnoreManager.matchesPattern
matchesPattern(path, pattern) ==
    LET isDirectoryPattern == EndsWith(pattern, <<SLASH>>)
        cleanPattern == IF isDirectoryPattern
                        THEN Slice(pattern, 0, Len(pattern) - 1) ELSE pattern
        regexStr == Translate(cleanPattern)
        anchored == StartsWith(pattern, <<SLASH>>)
        toks == IF anchored THEN SliceRegex(regexStr, 2) ELSE regexStr
        n == Len(path)
        StartOk(i) == IF anchored THEN i = 0 ELSE i = 0 \/ path[i] = SLASH
        EndOk(j) == IF isDirectoryPattern THEN j = n \/ path[j + 1] = SLASH ELSE j = n
    IN  /\ ~Rejected(toks)
        /\ \E i \in 0..n : StartOk(i) /\ \E j \in Ends(toks, path, i) : EndOk(j)

\* McpIgnoreManager.parsePatterns
KeepLine(line) == line # <<>> /\ ~StartsWith(line, <<"#">>)

parsePatterns(content) ==
    LET lines == SplitLines(content)
        trimmed == [i \in 1..Len(lines) |-> Trim(lines[i])]
    IN  SelectSeq(trimmed, KeepLine)

\* McpIgnoreManager.isExcluded, on the manager's fields pats and en
isExcludedBy(pats, en, path) ==
    IF ~en THEN FALSE
    ELSE IF path = McpIgnorePath THEN TRUE
    ELSE \E k \in 1..Len(pats) : matchesPattern(path, pats[k])

isExcluded(path) == isExcludedBy(patterns, enabled, path)

-----------------------------------------------------------------------------
(* utils/fuzzy-match                                                       *)

\* one row of the Levenshtein matrix from the row above it
RECURSIVE LevRow(_, _, _, _)
LevRow(prev, a, bc, row) ==
    LET j == Len(row)          \* row holds columns 0..j-1; column 0 is row[1]
    IN  IF j > Len(a) THEN row
        ELSE LET cost == IF a[j] = bc THEN 0 ELSE 1
                 v == Min(Min(prev[j + 1] + 1, row[j] + 1), prev[j] + cost)
             IN  LevRow(prev, a, bc, Append(row, v))

RECURSIVE LevRows(_, _, _, _)
LevRows(prev, a, b, i) ==
    IF i > Len(b) THEN prev
    ELSE LevRows(LevRow(prev, a, b[i], <<i>>), a, b, i + 1)

\* levenshteinDistance
levenshteinDistance(a, b) ==
    IF Len(a) = 0 THEN Len(b)
    ELSE IF Len(b) = 0 THEN Len(a)
    ELSE LevRows([j \in 1..(Len(a) + 1) |-> j - 1], a, b, 1)[Len(a) + 1]

\* similarityRatio, as the fraction num/den (1 - distance/maxLength)
similarityRatio(a, b) ==
    LET maxLength == Max(Len(a), Len(b))
    IN  IF maxLength = 0 THEN [num |-> 1, den |-> 1]
        ELSE [num |-> maxLength - levenshteinDistance(a, b), den |-> maxLength]

\* similarity >= pct/100
SimGE(sim, pct) == sim.num * 100 >= pct * sim.den
\* similarity x > similarity y
SimGT(x, y) == x.num * y.den > y.num * x.den

\* text.replace(/\s+/g, " ")
RECURSIVE CollapseSpace(_)
CollapseSpace(s) ==
    IF s = <<>> THEN <<>>
    ELSE IF IsSpace(s[1])
         THEN <<" ">> \o CollapseSpace(TrimStart(s))
         ELSE <<s[1]>> \o CollapseSpace(Tail(s))

\* normalizeWhitespace
normalizeWhitespace(text) == Trim(CollapseSpace(text))

NoMatch == [found |-> FALSE, start |-> 0, end |-> 0, sim |-> [num |-> 0, den |-> 1]]

\* findBestMatch: the inner loop, from offset i on, for one window size
RECURSIVE ScanOffsets(_, _, _, _, _, _)
ScanOffsets(content, normalizedSearch, windowSize, i, bestMatch, threshold) ==
    IF i > Len(content) - windowSize THEN bestMatch
    ELSE LET window == Slice(content, i, i + windowSize)
             similarity == similarityRatio(normalizedSearch, normalizeWhitespace(window))
         IN  IF /\ SimGE(similarity, threshold)
                /\ (~bestMatch.found \/ SimGT(similarity, bestMatch.sim))
             THEN LET nb == [found |-> TRUE, start |-> i, end |-> i + windowSize,
                             sim |-> similarity]
                  IN  IF SimGE(similarity, 95) THEN nb
                      ELSE ScanOffsets(content, normalizedSearch, windowSize, i + 1,
                                       nb, threshold)
             ELSE ScanOffsets(content, normalizedSearch, windowSize, i + 1,
                              bestMatch, threshold)

\* findBestMatch: the outer loop over windowSizes, from index k on
RECURSIVE ScanSizes(_, _, _, _, _, _)
ScanSizes(content, normalizedSearch, windowSizes, k, bestMatch, threshold) ==
    IF k > Len(windowSizes) THEN bestMatch
    ELSE LET windowSize == windowSizes[k]
         IN  IF windowSize <= 0 \/ windowSize > Len(content)
             THEN ScanSizes(content, normalizedSearch, windowSizes, k + 1,
                            bestMatch, threshold)
             ELSE LET b == ScanOffsets(content, normalizedSearch, windowSize, 0,
                                       bestMatch, threshold)
                  IN  IF b.found /\ SimGE(b.sim, 95) THEN b
                      ELSE ScanSizes(content, normalizedSearch, windowSizes, k + 1,
                                     b, threshold)

\* the window sizes tried: Math.floor(searchLength * 0.9) and so on
WindowSizes(searchLength) ==
    << searchLength,
       (searchLength * 9) \div 10,
       (searchLength * 11) \div 10,
       (searchLength * 8) \div 10,
       (searchLength * 12) \div 10 >>

\* findBestMatch that tries windows of the target's length only
findBestMatchOneSize(content, searchText, threshold) ==
    IF IndexOf(content, searchText, 0) # -1
    THEN [found |-> TRUE, start |-> IndexOf(content, searchText, 0),
          end |-> IndexOf(content, searchText, 0) + Len(searchText),
          sim |-> [num |-> 1, den |-> 1]]
    ELSE ScanSizes(content, normalizeWhitespace(searchText),
                   <<Len(normalizeWhitespace(searchText))>>, 1, NoMatch, threshold)

\* findBestMatch without the exact match tried first
findBestMatchFuzzyOnly(content, searchText, threshold) ==
    ScanSizes(content, normalizeWhitespace(searchText),
              WindowSizes(Len(normalizeWhitespace(searchText))), 1, NoMatch, threshold)

\* findBestMatch whose windows are not held against the threshold
findBestMatchNoThreshold(content, searchText, threshold) ==
    IF IndexOf(content, searchText, 0) # -1
    THEN [found |-> TRUE, start |-> IndexOf(content, searchText, 0),
          end |-> IndexOf(content, searchText, 0) + Len(searchText),
          sim |-> [num |-> 1, den |-> 1]]
    ELSE ScanSizes(content, normalizeWhitespace(searchText),
                   WindowSizes(Len(normalizeWhitespace(searchText))), 1, NoMatch, 0)

\* findBestMatch(content, searchText, threshold); threshold in hundredths
findBestMatch(content, searchText, threshold) ==
    LET exactIndex == IndexOf(content, searchText, 0)
        normalizedSearch == normalizeWhitespace(searchText)
    IN  IF exactIndex # -1
        THEN [found |-> TRUE, start |-> exactIndex,
              end |-> exactIndex + Len(searchText), sim |-> [num |-> 1, den |-> 1]]
        ELSE ScanSizes(content, normalizedSearch, WindowSizes(Len(normalizedSearch)),
                       1, NoMatch, threshold)

-----------------------------------------------------------------------------
(* tools/edit-tools: the structural patch functions                        *)

HASH == "#"

\* number of leading # characters, of leading whitespace characters
RECURSIVE LeadingHashes(_)
LeadingHashes(s) == IF s # <<>> /\ s[1] = HASH THEN 1 + LeadingHashes(Tail(s)) ELSE 0

RECURSIVE LeadingSpaces(_)
LeadingSpaces(s) == IF s # <<>> /\ IsSpace(s[1]) THEN 1 + LeadingSpaces(Tail(s)) ELSE 0

\* line.match(/^(#{1,6})\s+(.+)$/): [hit, level = group 1's length, text = group 2]
HeadingMatch(line) ==
    LET h == LeadingHashes(line)
        afterHashes == SliceFrom(line, h)
        w == LeadingSpaces(afterHashes)
        rest == SliceFrom(afterHashes, w)
    IN  IF h < 1 \/ h > 6 \/ w < 1 THEN [hit |-> FALSE, level |-> 0, text |-> <<>>]
        ELSE IF rest # <<>> THEN [hit |-> TRUE, level |-> h, text |-> rest]
        ELSE IF w >= 2 THEN [hit |-> TRUE, level |-> h, text |-> <<afterHashes[w]>>]
        ELSE [hit |-> FALSE, level |-> 0, text |-> <<>>]

\* nextLine.match(/^(#{1,6})\s+/): the level, or 0 when the line does not match
NextHeadingLevel(line) ==
    LET h == LeadingHashes(line)
    IN  IF h >= 1 /\ h <= 6 /\ LeadingSpaces(SliceFrom(line, h)) >= 1 THEN h ELSE 0

\* headingPath.split("::")
RECURSIVE SplitPath(_)
SplitPath(s) ==
    LET k == IndexOf(s, <<":", ":">>, 0)
    IN  IF k = -1 THEN <<s>>
        ELSE <<Slice(s, 0, k)>> \o SplitPath(SliceFrom(s, k + 2))

\* patchHeading: the inner loop that finds targetEnd (0-based), from line j on
RECURSIVE FindTargetEnd(_, _, _)
FindTargetEnd(lines, j, level) ==
    IF j >= Len(lines) THEN Len(lines)
    ELSE LET l == NextHeadingLevel(lines[j + 1])
         IN  IF l # 0 /\ l <= level THEN j ELSE FindTargetEnd(lines, j + 1, level)

\* patchHeading: the outer loop, from line i (0-based) on;
\* answers [targetStart, targetEnd], targetStart = -1 when the path is not found
RECURSIVE FindHeading(_, _, _, _, _)
FindHeading(lines, headings, i, currentLevel, headingIndex) ==
    IF i >= Len(lines) THEN [targetStart |-> -1, targetEnd |-> -1]
    ELSE LET m == HeadingMatch(lines[i + 1])
             text == Trim(m.text)
         IN  IF m.hit /\ text = headings[headingIndex + 1] /\ m.level > currentLevel
             THEN IF headingIndex + 1 = Len(headings)
                  THEN [targetStart |-> i,
                        targetEnd |-> FindTargetEnd(lines, i + 1, m.level)]
                  ELSE FindHeading(lines, headings, i + 1, m.level, headingIndex + 1)
             ELSE FindHeading(lines, headings, i + 1, currentLevel, headingIndex)

\* Array.prototype.splice(start, deleteCount, ...items) on a sequence
Splice(lines, start, deleteCount, items) ==
    LET a == Max(0, Min(start, Len(lines)))
        d == Max(0, Min(deleteCount, Len(lines) - a))
    IN  SubSeq(lines, 1, a) \o items \o SubSeq(lines, a + d + 1, Len(lines))

Ok(text) == [ok |-> TRUE, text |-> text, msg |-> ""]
Throw(msg) == [ok |-> FALSE, text |-> <<>>, msg |-> msg]

\* patchHeading whose append puts the content at the end of the document
patchHeadingAppendAtEnd(content, headingPath, operation, patchContent) ==
    LET lines == SplitLines(content)
        headings == SplitPath(headingPath)
        t == FindHeading(lines, headings, 0, 0, 0)
    IN  IF t.targetStart = -1 THEN Throw("Heading not found")
        ELSE CASE operation = "replace" ->
                    Ok(JoinLines(Splice(lines, t.targetStart + 1,
                                        t.targetEnd - t.targetStart - 1, <<patchContent>>)))
               [] operation = "prepend" ->
                    Ok(JoinLines(Splice(lines, t.targetStart + 1, 0, <<patchContent>>)))
               [] OTHER ->
                    Ok(JoinLines(Append(lines, patchContent)))

\* patchHeading whose replace inserts the content and keeps the old body
patchHeadingKeepBody(content, headingPath, operation, patchContent) ==
    LET lines == SplitLines(content)
        headings == SplitPath(headingPath)
        t == FindHeading(lines, headings, 0, 0, 0)
    IN  IF t.targetStart = -1 THEN Throw("Heading not found")
        ELSE CASE operation = "append" ->
                    Ok(JoinLines(Splice(lines, t.targetEnd, 0, <<patchContent>>)))
               [] OTHER ->
                    Ok(JoinLines(Splice(lines, t.targetStart + 1, 0, <<patchContent>>)))

\* patchHeading(content, headingPath, operation, patchContent)
patchHeading(content, headingPath, operation, patchContent) ==
    LET lines == SplitLines(content)
        headings == SplitPath(headingPath)
        t == FindHeading(lines, headings, 0, 0, 0)
    IN  IF t.targetStart = -1 THEN Throw("Heading not found")
        ELSE CASE operation = "replace" ->
                    Ok(JoinLines(Splice(lines, t.targetStart + 1,
                                        t.targetEnd - t.targetStart - 1, <<patchContent>>)))
               [] operation = "prepend" ->
                    Ok(JoinLines(Splice(lines, t.targetStart + 1, 0, <<patchContent>>)))
               [] operation = "append" ->
                    Ok(JoinLines(Splice(lines, t.targetEnd, 0, <<patchContent>>)))
               [] OTHER -> Ok(JoinLines(lines))

\* the first line (0-based) that includes blockMarker, or -1
RECURSIVE FindBlockLine(_, _, _)
FindBlockLine(lines, blockMarker, i) ==
    IF i >= Len(lines) THEN -1
    ELSE IF Includes(lines[i + 1], blockMarker) THEN i
    ELSE FindBlockLine(lines, blockMarker, i + 1)

\* patchBlock(content, blockId, operation, patchContent)
patchBlock(content, blockId, operation, patchContent) ==
    LET blockMarker == <<"^">> \o blockId
        lines == SplitLines(content)
        blockLine == FindBlockLine(lines, blockMarker, 0)
    IN  IF blockLine = -1 THEN Throw("Block not found")
        ELSE LET originalLine == lines[blockLine + 1]
                 markerIndex == IndexOf(originalLine, blockMarker, 0)
                 textBefore == TrimEnd(Slice(originalLine, 0, markerIndex))
                 marker == SliceFrom(originalLine, markerIndex)
                 newLine ==
                     CASE operation = "replace" -> patchContent \o <<" ">> \o marker
                       [] operation = "prepend" ->
                            patchContent \o <<" ">> \o textBefore \o <<" ">> \o marker
                       [] operation = "append" ->
                            textBefore \o <<" ">> \o patchContent \o <<" ">> \o marker
                       [] OTHER -> originalLine
             IN  Ok(JoinLines([lines EXCEPT ![blockLine + 1] = newLine]))

DASHES == <<"-", "-", "-">>

\* fieldPattern.test(line) for fieldPattern = /^<field>:\s*/ (a field name of
\* characters that are not special in a regular expression)
FieldPatternTest(line, field) == StartsWith(line, field \o <<":">>)

\* line.replace(fieldPattern, "")
FieldPatternStrip(line, field) ==
    IF FieldPatternTest(line, field) THEN TrimStart(SliceFrom(line, Len(field) + 1))
    ELSE line

RECURSIVE FindFieldLine(_, _, _)
FindFieldLine(lines, field, i) ==
    IF i >= Len(lines) THEN -1
    ELSE IF FieldPatternTest(lines[i + 1], field) THEN i
    ELSE FindFieldLine(lines, field, i + 1)

\* patchFrontmatter that puts a line break of its own before the closing
\* delimiter
patchFrontmatterRejoined(content, field, operation, patchContent) ==
    LET endIndex == IndexOf(content, DASHES, 3)
        lines == SplitLines(Slice(content, 4, endIndex))
        fieldLine == FindFieldLine(lines, field, 0)
        newLine == field \o <<":", " ">> \o patchContent
        newLines == IF fieldLine = -1 THEN Append(lines, newLine)
                    ELSE [lines EXCEPT ![fieldLine + 1] = newLine]
    IN  IF ~StartsWith(content, DASHES) \/ endIndex = -1 THEN Throw("Invalid frontmatter")
        ELSE Ok(DASHES \o <<NL>> \o JoinLines(newLines) \o <<NL>> \o DASHES
                \o SliceFrom(content, endIndex + 3))

\* patchFrontmatter whose new block replaces the document
patchFrontmatterOverwriting(content, field, operation, patchContent) ==
    IF ~StartsWith(content, DASHES)
    THEN Ok(DASHES \o <<NL>> \o field \o <<":", " ">> \o patchContent \o <<NL>>
            \o DASHES \o <<NL, NL>>)
    ELSE Throw("Invalid frontmatter")

\* patchFrontmatter(content, field, operation, patchContent)
patchFrontmatter(content, field, operation, patchContent) ==
    IF ~StartsWith(content, DASHES)
    THEN Ok(DASHES \o <<NL>> \o field \o <<":", " ">> \o patchContent \o <<NL>>
            \o DASHES \o <<NL, NL>> \o content)
    ELSE LET endIndex == IndexOf(content, DASHES, 3)
         IN  IF endIndex = -1 THEN Throw("Invalid frontmatter: missing closing ---")
             ELSE LET frontmatter == Slice(content, 4, endIndex)
                      rest == SliceFrom(content, endIndex + 3)
                      lines == SplitLines(frontmatter)
                      fieldLine == FindFieldLine(lines, field, 0)
                      head == field \o <<":", " ">>
                      newLines ==
                          IF fieldLine = -1 THEN Append(lines, head \o patchContent)
                          ELSE LET currentValue ==
                                       FieldPatternStrip(lines[fieldLine + 1], field)
                                   newLine ==
                                       CASE operation = "replace" -> head \o patchContent
                                         [] operation = "prepend" ->
                                              head \o patchContent \o currentValue
                                         [] operation = "append" ->
                                              head \o currentValue \o patchContent
                                         [] OTHER -> lines[fieldLine + 1]
                               IN  [lines EXCEPT ![fieldLine + 1] = newLine]
                  IN  Ok(DASHES \o <<NL>> \o JoinLines(newLines) \o DASHES \o rest)

-----------------------------------------------------------------------------
(* The vault and the paths of the model                                    *)

MD == <<DOT, "m", "d">>

NotePath == <<"n">> \o MD                      \* n.md, a note
SecretPath == <<"s">> \o MD                    \* s.md
SecretArg == <<"s">>                           \* s, which vault_create completes to s.md
PromptsFolder == <<"p">>                       \* settings.promptsFolder
PromptPath == <<"p", SLASH, "q">> \o MD        \* p/q.md, a prompt
PromptName == <<"q">>
NewArg == <<"d", SLASH, "m">>                  \* d/m, created as d/m.md in a new folder
NewFolder == <<"d">>
NewPath == NewArg \o MD
RootedIgnoreArg == <<SLASH>> \o McpIgnorePath  \* /.mcpignore, not normalized

\* every path a file of the model can have
VaultPaths == {NotePath, SecretPath, PromptPath, NewPath, McpIgnorePath}

\* the path arguments the read tools are called with
ReadArgPaths == {NotePath, PromptPath, McpIgnorePath}

\* the path arguments vault_create, vault_update and vault_delete are called with
ArgPaths == {NotePath, SecretPath, SecretArg, PromptPath, NewArg, McpIgnorePath,
             RootedIgnoreArg}

NoFile == <<"<", "n", "o", " ", "f", "i", "l", "e", ">">>

\* contents of .mcpignore: two rules; a comment only
RulesTwo == <<"s", DOT, "m", "d", NL, "p", SLASH>>
RulesComment == <<HASH, " ", "c">>
RuleFiles == {RulesTwo, RulesComment}

\* contents of the note n.md at start
DocPlain == <<HASH, " ", "A", NL, "x", " ", "^", "b">>     \* heading A, block ^b
DocOpenFm == <<"-", "-", "-", NL, "k", ":", " ", "v">>     \* frontmatter never closed
DocFm == <<"-", "-", "-", NL, "k", ":", " ", "v", NL, "-", "-", "-", NL, "x">>
NoteDocs == {DocPlain, DocOpenFm, DocFm}

PromptDoc == <<"q", "q">>
NewText == <<"y">>

\* obsidian normalizePath: backslashes and runs of slashes become one slash,
\* leading and trailing slashes are dropped, the empty path is "/"
RECURSIVE CollapseSlashes(_)
CollapseSlashes(s) ==
    IF s = <<>> THEN <<>>
    ELSE LET c == IF s[1] = "\\" THEN SLASH ELSE s[1]
             r == CollapseSlashes(Tail(s))
         IN  IF c = SLASH /\ r # <<>> /\ r[1] = SLASH THEN r ELSE <<c>> \o r

normalizePath(path) ==
    LET c == CollapseSlashes(path)
        a == IF c # <<>> /\ c[1] = SLASH THEN Tail(c) ELSE c
        b == IF a # <<>> /\ a[Len(a)] = SLASH THEN SubSeq(a, 1, Len(a) - 1) ELSE a
    IN  IF b = <<>> THEN <<SLASH>> ELSE b

\* vault.getAbstractFileByPath(path) instanceof TFile
IsFileIn(v, path) == path \in DOMAIN v /\ v[path] # NoFile
IsFile(path) == IsFileIn(vault, path)

\* vault.getAbstractFileByPath(path) is a file or a folder
Exists(path) == IsFile(path) \/ path \in folders

\* vault.getMarkdownFiles()
MarkdownFiles == {p \in DOMAIN vault : IsFile(p) /\ EndsWith(p, MD)}

\* normalizedPath.split("/").slice(0, -1).join("/")
RECURSIVE LastSlash(_, _)
LastSlash(s, i) == IF i = 0 THEN 0 ELSE IF s[i] = SLASH THEN i ELSE LastSlash(s, i - 1)

ParentPath(path) ==
    LET k == LastSlash(path, Len(path))
    IN  IF k = 0 THEN <<>> ELSE SubSeq(path, 1, k - 1)

\* TFile.basename: the file name without its extension
Basename(path) ==
    LET k == LastSlash(path, Len(path))
        name == SubSeq(path, k + 1, Len(path))
    IN  IF EndsWith(name, MD) THEN SubSeq(name, 1, Len(name) - Len(MD)) ELSE name

-----------------------------------------------------------------------------
(* SecurityManager                                                         *)

Pass(path) == [ok |-> TRUE, path |-> path, msg |-> ""]
Deny(msg) == [ok |-> FALSE, path |-> <<>>, msg |-> msg]

MsgReadOnly == "Write operation blocked: read-only mode is enabled"
MsgIgnored == "Access denied: path is blocked by .mcpignore"
MsgProtected == "Access denied: cannot modify .mcpignore"

\* SecurityManager.validateRead
validateRead(path) ==
    LET normalized == normalizePath(path)
    IN  IF isExcluded(normalized) THEN Deny(MsgIgnored) ELSE Pass(normalized)

\* validateWrite without the read-only test
validateWriteIgnoringMode(path) ==
    LET normalized == normalizePath(path)
    IN  IF isExcluded(normalized) THEN Deny(MsgIgnored)
        ELSE IF normalized = McpIgnorePath THEN Deny(MsgProtected)
        ELSE Pass(normalized)

\* validateWrite without the test for the rules file itself
validateWriteUnprotected(path) ==
    IF readOnlyMode THEN Deny(MsgReadOnly)
    ELSE LET normalized == normalizePath(path)
         IN  IF isExcluded(normalized) THEN Deny(MsgIgnored) ELSE Pass(normalized)

\* SecurityManager.validateWrite
validateWrite(path) ==
    IF readOnlyMode THEN Deny(MsgReadOnly)
    ELSE LET normalized == normalizePath(path)
         IN  IF isExcluded(normalized) THEN Deny(MsgIgnored)
             ELSE IF normalized = McpIgnorePath THEN Deny(MsgProtected)
             ELSE Pass(normalized)

\* SecurityManager.isAccessible
isAccessible(path) == validateRead(path).ok

-----------------------------------------------------------------------------
(* The parts of the state that a specification leaves alone                *)

\* no mcp-session-id header
NoSid == 0

NoRequest == [n |-> 0, method |-> "", sid |-> NoSid, auth |-> FALSE, kind |-> "",
              status |-> 0, code |-> 0, message |-> "", inst |-> 0, newSid |-> NoSid]

SessionsIdle ==
    /\ transports = <<>>
    /\ instances = <<>>
    /\ connecting = {}
    /\ issued = <<>>
    /\ http = NoRequest

NoPatch == [fn |-> "", content |-> <<>>, target |-> <<>>, operation |-> "",
            patchContent |-> <<>>]

PatchIdle ==
    /\ pin = NoPatch
    /\ pout = Throw("")

CommandsIdle ==
    /\ allowCommandExecution = FALSE
    /\ tools = {}
    /\ commands = {}
    /\ executed = <<>>

ToolsIdle ==
    /\ CommandsIdle
    /\ vault = [p \in {} |-> <<>>]
    /\ folders = {}
    /\ patterns = <<>>
    /\ enabled = FALSE
    /\ loadPc = "idle"
    /\ readOnlyMode = FALSE
    /\ isRunning = FALSE
    /\ reqs = <<>>
    /\ nWrites = 0

-----------------------------------------------------------------------------
(* Tool calls: one frame per call in flight                                *)

\* the most write-tool calls one behaviour makes (each can grow a note)
MaxWrites == 1

Slots == DOMAIN reqs

\* the write calls a run may make: MaxWrites, and one more for each further slot
WriteBudget == MaxWrites + Len(reqs) - 1

Idle == [pc |-> "idle"]

NoArg == [text |-> <<>>, text2 |-> <<>>, num |-> 0, mode |-> "", kind |-> ""]

WriteTools == {"vault_create", "vault_update", "vault_delete",
               "vault_edit", "vault_edit_line", "vault_patch"}
EditTools == {"vault_edit", "vault_edit_line", "vault_patch"}
ReadTools == {"vault_read", "vault_list", "vault_search", "graph_info", "graph_links",
              "active_note", "dataview_query", "listPrompts", "getPrompt"}

\* the frame of a handler that has just been entered
Frame(tool, path, arg) ==
    [tool |-> tool, path |-> path, arg |-> arg, pc |-> "run",
     target |-> <<>>,          \* the path the store call is applied to
     newContent |-> <<>>,      \* the content handed to vault.modify / vault.create
     modifyCalls |-> 0,        \* calls of vault.modify made
     isError |-> FALSE, msg |-> "",
     outPaths |-> {},          \* documents whose path or content is in the payload
     outText |-> <<>>,         \* content in the payload
     outNames |-> {},          \* prompt names in the payload
     scan |-> {},              \* vault_search: the files still to scan
     skipped |-> {}]           \* vault_search: the files whose read failed

Await(f, pc, target) == [f EXCEPT !.pc = pc, !.target = target]
Fail(f, msg) == [f EXCEPT !.pc = "done", !.isError = TRUE, !.msg = msg]
Success(f, out, text) ==
    [f EXCEPT !.pc = "done", !.isError = FALSE, !.outPaths = out, !.outText = text]

MsgNotFound == "File not found"
MsgExists == "File already exists"
MsgStore == "store call failed"
MsgNoMatch == "No match found for text with threshold"
MsgInvalidLine == "Invalid line number"
MsgUnknownTarget == "Unknown target type"

CanCall(s) == isRunning /\ s \in Slots /\ reqs[s] = Idle

Put(s, f) == reqs' = [reqs EXCEPT ![s] = f]

Security == <<patterns, enabled, loadPc, readOnlyMode, isRunning>>

\* vault_read, up to await app.vault.read(file)
VaultReadEnter(f) ==
    LET r == validateRead(f.path)
    IN  IF ~r.ok THEN Fail(f, r.msg)
        ELSE IF ~IsFile(r.path) THEN Fail(f, MsgNotFound)
        ELSE Await(f, "read", r.path)

CallVaultRead(s) ==
    /\ CanCall(s)
    /\ \E path \in ReadArgPaths : Put(s, VaultReadEnter(Frame("vault_read", path, NoArg)))
    /\ UNCHANGED <<vault, folders, Security, nWrites, Others>>

\* vault_list (no await)
VaultListRun(f) ==
    Success(f, {p \in MarkdownFiles :
                    /\ (f.path = <<>> \/ StartsWith(p, f.path))
                    /\ isAccessible(p)}, <<>>)

CallVaultList(s) ==
    /\ CanCall(s)
    /\ \E path \in {<<>>, PromptsFolder} :
          Put(s, VaultListRun(Frame("vault_list", path, NoArg)))
    /\ UNCHANGED <<vault, folders, Security, nWrites, Others>>

\* vault_create, up to the first await (createFolder or create)
VaultCreateEnter(f) ==
    LET r == validateWrite(f.path)
        normalizedPath == IF EndsWith(r.path, MD) THEN r.path ELSE r.path \o MD
        parentPath == ParentPath(normalizedPath)
        g == [f EXCEPT !.newContent = f.arg.text]
    IN  IF ~r.ok THEN Fail(f, r.msg)
        ELSE IF Exists(normalizedPath) THEN Fail(Await(f, "run", normalizedPath), MsgExists)
        ELSE IF parentPath # <<>> /\ ~Exists(parentPath)
             THEN Await(g, "createFolder", normalizedPath)
        ELSE Await(g, "create", normalizedPath)

CallVaultCreate(s) ==
    /\ CanCall(s)
    /\ nWrites < WriteBudget
    /\ \E path \in ArgPaths :
          Put(s, VaultCreateEnter(Frame("vault_create", path, [NoArg EXCEPT !.text = NewText])))
    /\ nWrites' = nWrites + 1
    /\ UNCHANGED <<vault, folders, Security, Others>>

\* vault_update, vault_delete and the edit tools, up to their first await
WriteEnter(f, awaited) ==
    LET r == validateWrite(f.path)
    IN  IF ~r.ok THEN Fail(f, r.msg)
        ELSE IF ~IsFile(r.path) THEN Fail(f, MsgNotFound)
        ELSE Await(f, awaited, r.path)

\* the handler calls app.vault.modify(file, content) and awaits it
IssueModify(f, content) ==
    [f EXCEPT !.pc = "modify", !.newContent = content, !.modifyCalls = f.modifyCalls + 1]

\* vault_update, up to await app.vault.modify(file, content)
VaultUpdateEnter(f) ==
    LET g == WriteEnter(f, "modify")
    IN  IF g.pc = "modify" THEN IssueModify(g, f.arg.text) ELSE g

CallVaultUpdate(s) ==
    /\ CanCall(s)
    /\ nWrites < WriteBudget
    /\ \E path \in ArgPaths :
          Put(s, VaultUpdateEnter(Frame("vault_update", path,
                                        [NoArg EXCEPT !.text = NewText])))
    /\ nWrites' = nWrites + 1
    /\ UNCHANGED <<vault, folders, Security, Others>>

CallVaultDelete(s) ==
    /\ CanCall(s)
    /\ nWrites < WriteBudget
    /\ \E path \in ArgPaths : Put(s, WriteEnter(Frame("vault_delete", path, NoArg), "trash"))
    /\ nWrites' = nWrites + 1
    /\ UNCHANGED <<vault, folders, Security, Others>>

\* the arguments the edit tools are called with
EditArgPaths == {NotePath, PromptPath, McpIgnorePath}
EditArgs == {[NoArg EXCEPT !.text = a[1], !.text2 = NewText, !.num = a[2]] :
                a \in {<<<<"x">>, 70>>, <<<<"z">>, 70>>, <<<<"z">>, 0>>}}
EditLineArgs == {[NoArg EXCEPT !.text = <<"y", NL, "w">>, !.num = a[1], !.mode = a[2]] :
                    a \in {<<0, "replace">>, <<1, "before">>, <<1, "after">>,
                           <<3, "replace">>, <<3, "before">>, <<4, "replace">>,
                           <<9, "before">>}}
PatchArgs == {[NoArg EXCEPT !.kind = a[1], !.text = a[2], !.mode = a[3], !.text2 = NewText] :
                 a \in {<<"heading", <<"A">>, "append">>, <<"heading", <<"A">>, "replace">>,
                        <<"heading", <<"Z">>, "append">>,
                        <<"block", <<"b">>, "prepend">>, <<"block", <<"z">>, "append">>,
                        <<"frontmatter", <<"k">>, "replace">>,
                        <<"table", <<"A">>, "append">>}}

CallVaultEdit(s) ==
    /\ CanCall(s)
    /\ nWrites < WriteBudget
    /\ \E path \in EditArgPaths, arg \in EditArgs :
          Put(s, WriteEnter(Frame("vault_edit", path, arg), "read"))
    /\ nWrites' = nWrites + 1
    /\ UNCHANGED <<vault, folders, Security, Others>>

CallVaultEditLine(s) ==
    /\ CanCall(s)
    /\ nWrites < WriteBudget
    /\ \E path \in EditArgPaths, arg \in EditLineArgs :
          Put(s, WriteEnter(Frame("vault_edit_line", path, arg), "read"))
    /\ nWrites' = nWrites + 1
    /\ UNCHANGED <<vault, folders, Security, Others>>

CallVaultPatch(s) ==
    /\ CanCall(s)
    /\ nWrites < WriteBudget
    /\ \E path \in EditArgPaths, arg \in PatchArgs :
          Put(s, WriteEnter(Frame("vault_patch", path, arg), "read"))
    /\ nWrites' = nWrites + 1
    /\ UNCHANGED <<vault, folders, Security, Others>>

\* vault_edit after the read: [ok, text, msg]
VaultEditApply(content, arg) ==
    LET match == findBestMatch(content, arg.text, arg.num)
    IN  IF ~match.found THEN Throw(MsgNoMatch)
        ELSE Ok(Slice(content, 0, match.start) \o arg.text2 \o SliceFrom(content, match.end))

\* vault_edit_line that accepts no line number past the last line
VaultEditLineApplyStrict(content, arg) ==
    LET lines == SplitLines(content)
        index == arg.num - 1
        newLines == SplitLines(arg.text)
    IN  IF arg.num < 1 \/ arg.num > Len(lines) THEN Throw(MsgInvalidLine)
        ELSE CASE arg.mode = "before" -> Ok(JoinLines(Splice(lines, index, 0, newLines)))
               [] arg.mode = "after" -> Ok(JoinLines(Splice(lines, index + 1, 0, newLines)))
               [] OTHER -> Ok(JoinLines(Splice(lines, index, 1, newLines)))

\* vault_edit_line after the read
VaultEditLineApply(content, arg) ==
    LET lines == SplitLines(content)
        lineNumber == arg.num
        index == lineNumber - 1
        newLines == SplitLines(arg.text)
    IN  IF lineNumber < 1 \/ lineNumber > Len(lines) + 1 THEN Throw(MsgInvalidLine)
        ELSE CASE arg.mode = "before" -> Ok(JoinLines(Splice(lines, index, 0, newLines)))
               [] arg.mode = "after" -> Ok(JoinLines(Splice(lines, index + 1, 0, newLines)))
               [] OTHER -> Ok(JoinLines(Splice(lines, index, 1, newLines)))

\* vault_patch after the read
VaultPatchApply(content, arg) ==
    CASE arg.kind = "heading" -> patchHeading(content, arg.text, arg.mode, arg.text2)
      [] arg.kind = "block" -> patchBlock(content, arg.text, arg.mode, arg.text2)
      [] arg.kind = "frontmatter" -> patchFrontmatter(content, arg.text, arg.mode, arg.text2)
      [] OTHER -> Throw(MsgUnknownTarget)

\* getPrompt after the read: the content with the frontmatter stripped
StripFrontmatter(content) ==
    IF StartsWith(content, DASHES) /\ IndexOf(content, DASHES, 3) # -1
    THEN Trim(SliceFrom(content, IndexOf(content, DASHES, 3) + 3))
    ELSE content

\* AfterRead with the write issued before the edit is known to apply
AfterReadWriteFirst(f, content) ==
    LET e == CASE f.tool = "vault_edit" -> VaultEditApply(content, f.arg)
               [] f.tool = "vault_edit_line" -> VaultEditLineApply(content, f.arg)
               [] f.tool = "vault_patch" -> VaultPatchApply(content, f.arg)
               [] OTHER -> Ok(content)
    IN  CASE f.tool \in EditTools ->
               IF e.ok THEN IssueModify(f, e.text)
               ELSE Fail(IssueModify(f, content), e.msg)
          [] f.tool = "getPrompt" -> Success(f, {f.target}, StripFrontmatter(content))
          [] OTHER -> Success(f, {f.target}, content)

\* the handler's continuation when await app.vault.read(file) has answered content
AfterRead(f, content) ==
    LET e == CASE f.tool = "vault_edit" -> VaultEditApply(content, f.arg)
               [] f.tool = "vault_edit_line" -> VaultEditLineApply(content, f.arg)
               [] f.tool = "vault_patch" -> VaultPatchApply(content, f.arg)
               [] OTHER -> Ok(content)
    IN  CASE f.tool \in EditTools ->
               IF e.ok THEN IssueModify(f, e.text) ELSE Fail(f, e.msg)
          [] f.tool = "getPrompt" -> Success(f, {f.target}, StripFrontmatter(content))
          [] OTHER -> Success(f, {f.target}, content)

\* a read that waits while another call is between its read and its modify of
\* the same document
ReadDoneLocked(s) ==
    /\ s \in Slots /\ reqs[s] # Idle /\ reqs[s].pc = "read"
    /\ \A t \in Slots \ {s} :
          ~(reqs[t] # Idle /\ reqs[t].pc = "modify" /\ reqs[t].target = reqs[s].target)
    /\ \E ok \in BOOLEAN :
          Put(s, IF ok /\ IsFile(reqs[s].target)
                 THEN AfterRead(reqs[s], vault[reqs[s].target])
                 ELSE Fail(reqs[s], MsgStore))
    /\ UNCHANGED <<vault, folders, Security, nWrites, Others>>

\* app.vault.read(file) answers, or fails
ReadDone(s) ==
    /\ s \in Slots /\ reqs[s] # Idle /\ reqs[s].pc = "read"
    /\ \E ok \in BOOLEAN :
          Put(s, IF ok /\ IsFile(reqs[s].target)
                 THEN AfterRead(reqs[s], vault[reqs[s].target])
                 ELSE Fail(reqs[s], MsgStore))
    /\ UNCHANGED <<vault, folders, Security, nWrites, Others>>

\* app.vault.modify(file, content) answers, or fails
ModifyDone(s) ==
    /\ s \in Slots /\ reqs[s] # Idle /\ reqs[s].pc = "modify"
    /\ \E ok \in BOOLEAN :
          IF ok /\ IsFile(reqs[s].target)
          THEN /\ vault' = [vault EXCEPT ![reqs[s].target] = reqs[s].newContent]
               /\ Put(s, Success(reqs[s], {}, <<>>))
          ELSE /\ vault' = vault
               /\ Put(s, Fail(reqs[s], MsgStore))
    /\ UNCHANGED <<folders, Security, nWrites, Others>>

\* app.vault.createFolder(parentPath) answers, or fails; then create is called
CreateFolderDone(s) ==
    /\ s \in Slots /\ reqs[s] # Idle /\ reqs[s].pc = "createFolder"
    /\ \E ok \in BOOLEAN :
          IF ok /\ ~Exists(ParentPath(reqs[s].target))
          THEN /\ folders' = folders \cup {ParentPath(reqs[s].target)}
               /\ Put(s, Await(reqs[s], "create", reqs[s].target))
          ELSE /\ folders' = folders
               /\ Put(s, Fail(reqs[s], MsgStore))
    /\ UNCHANGED <<vault, Security, nWrites, Others>>

\* app.vault.create(normalizedPath, content) answers, or fails
CreateDone(s) ==
    /\ s \in Slots /\ reqs[s] # Idle /\ reqs[s].pc = "create"
    /\ \E ok \in BOOLEAN :
          IF ok /\ ~Exists(reqs[s].target)
          THEN /\ vault' = [vault EXCEPT ![reqs[s].target] = reqs[s].newContent]
               /\ Put(s, Success(reqs[s], {}, <<>>))
          ELSE /\ vault' = vault
               /\ Put(s, Fail(reqs[s], MsgStore))
    /\ UNCHANGED <<folders, Security, nWrites, Others>>

\* app.vault.trash(file, true) answers, or fails
TrashDone(s) ==
    /\ s \in Slots /\ reqs[s] # Idle /\ reqs[s].pc = "trash"
    /\ \E ok \in BOOLEAN :
          IF ok /\ IsFile(reqs[s].target)
          THEN /\ vault' = [vault EXCEPT ![reqs[s].target] = NoFile]
               /\ Put(s, Success(reqs[s], {}, <<>>))
          ELSE /\ vault' = vault
               /\ Put(s, Fail(reqs[s], MsgStore))
    /\ UNCHANGED <<folders, Security, nWrites, Others>>

\* the result payload is handed to the protocol layer
Reply(s) ==
    /\ s \in Slots /\ reqs[s] # Idle /\ reqs[s].pc = "done"
    /\ Put(s, Idle)
    /\ UNCHANGED <<vault, folders, Security, nWrites, Others>>

\* String.prototype.toLowerCase on the characters of the model
ToLower(text) == [i \in 1..Len(text) |-> IF text[i] = "A" THEN "a" ELSE text[i]]

\* vault_search: does some line of content include query
SearchHit(content, query) ==
    LET lines == SplitLines(content)
    IN  \E i \in 1..Len(lines) : lines[i] # <<>> /\ Includes(ToLower(lines[i]), query)

CallVaultSearch(s) ==
    /\ CanCall(s)
    /\ \E query \in {<<"A">>, <<"q">>} :
          Put(s, [Frame("vault_search", <<>>, [NoArg EXCEPT !.text = ToLower(query)])
                    EXCEPT !.pc = "search", !.scan = MarkdownFiles])
    /\ UNCHANGED <<vault, folders, Security, nWrites, Others>>

\* the loop of vault_search over the files: each file is checked with isAccessible
\* and read with cachedRead; a read that fails skips the file
SearchDone(s) ==
    /\ s \in Slots /\ reqs[s] # Idle /\ reqs[s].pc = "search"
    /\ \E unreadable \in SUBSET reqs[s].scan :
          Put(s, [Success(reqs[s],
                          {p \in reqs[s].scan \ unreadable :
                              /\ isAccessible(p)
                              /\ IsFile(p)
                              /\ SearchHit(vault[p], reqs[s].arg.text)}, <<>>)
                    EXCEPT !.skipped = {p \in unreadable : isAccessible(p)}])
    /\ UNCHANGED <<vault, folders, Security, nWrites, Others>>

\* metadataCache: the resolved links between notes, <<source, destination>>
Links == {<<NotePath, PromptPath>>, <<PromptPath, NotePath>>, <<NotePath, SecretPath>>}

\* graph_info (no await)
GraphInfoRun(f) ==
    LET r == validateRead(f.path)
    IN  IF ~r.ok THEN Fail(f, r.msg)
        ELSE IF ~IsFile(r.path) THEN Fail(f, MsgNotFound)
        ELSE Success(Await(f, "run", r.path), {r.path}, <<>>)

CallGraphInfo(s) ==
    /\ CanCall(s)
    /\ \E path \in ReadArgPaths : Put(s, GraphInfoRun(Frame("graph_info", path, NoArg)))
    /\ UNCHANGED <<vault, folders, Security, nWrites, Others>>

\* graph_links (no await)
GraphLinksRun(f) ==
    LET r == validateRead(f.path)
        forwardLinks == {l[2] : l \in {l \in Links :
                            l[1] = r.path /\ IsFile(l[2]) /\ isAccessible(l[2])}}
        backlinks == {l[1] : l \in {l \in Links :
                            l[2] = r.path /\ IsFile(l[1]) /\ isAccessible(l[1])}}
    IN  IF ~r.ok THEN Fail(f, r.msg)
        ELSE IF ~IsFile(r.path) THEN Fail(f, MsgNotFound)
        ELSE Success(Await(f, "run", r.path), {r.path} \cup forwardLinks \cup backlinks, <<>>)

CallGraphLinks(s) ==
    /\ CanCall(s)
    /\ \E path \in ReadArgPaths : Put(s, GraphLinksRun(Frame("graph_links", path, NoArg)))
    /\ UNCHANGED <<vault, folders, Security, nWrites, Others>>

\* active_note, up to await app.vault.read(file); view is the file of the
\* active markdown view, <<>> when no note is open
ActiveNoteEnter(f) ==
    IF f.path = <<>> THEN Success(f, {}, <<>>)
    ELSE IF ~isAccessible(f.path) THEN Success(f, {}, <<>>)
    ELSE Await(f, "read", f.path)

CallActiveNote(s) ==
    /\ CanCall(s)
    /\ \E view \in MarkdownFiles \cup {<<>>} :
          Put(s, ActiveNoteEnter(Frame("active_note", view, NoArg)))
    /\ UNCHANGED <<vault, folders, Security, nWrites, Others>>

MsgNoDataview == "Dataview plugin is not installed or enabled"
MsgQueryFailed == "DQL query failed"

\* dataview_query, up to await api.query(query); api: is the Dataview plugin there
CallDataviewQuery(s) ==
    /\ CanCall(s)
    /\ \E api \in BOOLEAN :
          Put(s, IF api THEN Await(Frame("dataview_query", <<>>, NoArg), "query", <<>>)
                 ELSE Fail(Frame("dataview_query", <<>>, NoArg), MsgNoDataview))
    /\ UNCHANGED <<vault, folders, Security, nWrites, Others>>

\* api.query answers: it fails, or it is successful with rows that link to any of
\* the vault's notes; the handler formats the rows and returns them
QueryDone(s) ==
    /\ s \in Slots /\ reqs[s] # Idle /\ reqs[s].pc = "query"
    /\ \/ Put(s, Fail(reqs[s], MsgQueryFailed))
       \/ \E rows \in SUBSET MarkdownFiles : Put(s, Success(reqs[s], rows, <<>>))
    /\ UNCHANGED <<vault, folders, Security, nWrites, Others>>

MsgPromptNotFound == "Prompt not found"

\* listPrompts (no await)
ListPromptsRun(f) ==
    IF ~Exists(PromptsFolder) THEN Success(f, {}, <<>>)
    ELSE [Success(f, {}, <<>>) EXCEPT !.outNames =
            {Basename(p) : p \in {p \in MarkdownFiles :
                                    StartsWith(p, PromptsFolder \o <<SLASH>>)}}]

CallListPrompts(s) ==
    /\ CanCall(s)
    /\ Put(s, ListPromptsRun(Frame("listPrompts", <<>>, NoArg)))
    /\ UNCHANGED <<vault, folders, Security, nWrites, Others>>

\* getPrompt, up to await app.vault.read(file)
GetPromptEnter(f) ==
    LET path == PromptsFolder \o <<SLASH>> \o f.arg.text \o MD
    IN  IF ~IsFile(path) THEN Fail(f, MsgPromptNotFound) ELSE Await(f, "read", path)

CallGetPrompt(s) ==
    /\ CanCall(s)
    /\ \E name \in {PromptName, <<"z">>} :
          Put(s, GetPromptEnter(Frame("getPrompt", <<>>, [NoArg EXCEPT !.text = name])))
    /\ UNCHANGED <<vault, folders, Security, nWrites, Others>>

-----------------------------------------------------------------------------
(* The tool registry, the dispatch of tools/call and the command tools     *)

\* the ids of the commands the application can list
CommandIds == {"app:reload", "editor:save"}

\* the most calls of command_execute one behaviour makes
MaxExecuted == 1

BaseTools == {"vault_list", "vault_read", "vault_create", "vault_update", "vault_delete",
              "vault_search", "vault_edit", "vault_edit_line", "vault_patch",
              "graph_info", "graph_links", "dataview_query", "active_note"}
CommandTools == {"command_list", "command_execute"}

MsgUnknownTool == "Unknown tool"
MsgThrown == "Error"
MsgReadOnlyCommand == "Command execution is blocked in read-only mode"
MsgCommandNotFound == "Command not found"
MsgExecuteFailed == "Failed to execute command"

\* a registration of the command tools whatever the setting
registerCommandToolsAlways(allow) == CommandTools

\* registerCommandTools: the names it registers
registerCommandTools(allow) == IF ~allow THEN {} ELSE CommandTools

\* DataviewMcpPlugin.registerCapabilities, called by startServer before
\* await this.mcpServer.start()
RegisterCapabilities ==
    /\ ~isRunning /\ loadPc = "idle" /\ tools = {}
    /\ tools' = BaseTools \cup registerCommandTools(allowCommandExecution)
    /\ UNCHANGED <<vault, folders, Security, reqs, nWrites, SessionVars, PatchVars,
                   allowCommandExecution, commands, executed>>

\* the settings tab: the toggle "Allow command execution"
SetAllowCommandExecution ==
    /\ allowCommandExecution' = ~allowCommandExecution
    /\ UNCHANGED <<vault, folders, Security, reqs, nWrites, SessionVars, PatchVars,
                   tools, commands, executed>>

\* a plugin is enabled or disabled: a command appears in the list or leaves it
CommandsChange ==
    /\ \E id \in CommandIds :
          commands' = IF id \in commands THEN commands \ {id} ELSE commands \cup {id}
    /\ UNCHANGED <<vault, folders, Security, reqs, nWrites, SessionVars, PatchVars,
                   allowCommandExecution, tools, executed>>

\* a dispatcher that answers a name it does not know with an empty success
CallUnknownToolEmpty(s) ==
    /\ CanCall(s)
    /\ \E name \in (CommandTools \cup {"no_such_tool"}) \ tools :
          Put(s, Success(Frame(name, <<>>, NoArg), {}, <<>>))
    /\ UNCHANGED <<vault, folders, Security, nWrites, Others>>

\* the CallToolRequestSchema handler when this.tools has no tool of that name
CallUnknownTool(s) ==
    /\ CanCall(s)
    /\ \E name \in (CommandTools \cup {"no_such_tool"}) \ tools :
          Put(s, Fail(Frame(name, <<>>, NoArg), MsgUnknownTool))
    /\ UNCHANGED <<vault, folders, Security, nWrites, Others>>

\* vault_search called without a query: args.query.toLowerCase() throws and the
\* catch clause of the CallToolRequestSchema handler answers
CallVaultSearchNoQuery(s) ==
    /\ CanCall(s)
    /\ Put(s, Fail(Frame("vault_search", <<>>, NoArg), MsgThrown))
    /\ UNCHANGED <<vault, folders, Security, nWrites, Others>>

\* command_list (no await): the commands listed now
CallCommandList(s) ==
    /\ CanCall(s)
    /\ "command_list" \in tools
    /\ Put(s, [Success(Frame("command_list", <<>>, NoArg), {}, <<>>)
                 EXCEPT !.outNames = commands])
    /\ UNCHANGED <<vault, folders, Security, nWrites, Others>>

\* the frame of command_execute; arg.kind holds commandId
CommandFrame(commandId) == Frame("command_execute", <<>>, [NoArg EXCEPT !.kind = commandId])

\* a command_execute that does not look the command up in the list
CallCommandExecuteUnlisted(s) ==
    /\ CanCall(s)
    /\ "command_execute" \in tools
    /\ Len(executed) < MaxExecuted
    /\ \E commandId \in CommandIds :
          IF readOnlyMode
          THEN /\ Put(s, Fail(CommandFrame(commandId), MsgReadOnlyCommand))
               /\ executed' = executed
          ELSE /\ Put(s, Await(CommandFrame(commandId), "execute", <<>>))
               /\ executed' = Append(executed, commandId)
    /\ UNCHANGED <<vault, folders, Security, nWrites, SessionVars, PatchVars,
                   allowCommandExecution, tools, commands>>

\* command_execute, up to await appInternals.commands.executeCommandById(commandId)
CallCommandExecute(s) ==
    /\ CanCall(s)
    /\ "command_execute" \in tools
    /\ Len(executed) < MaxExecuted
    /\ \E commandId \in CommandIds :
          IF readOnlyMode
          THEN /\ Put(s, Fail(CommandFrame(commandId), MsgReadOnlyCommand))
               /\ executed' = executed
          ELSE IF commandId \notin commands
          THEN /\ Put(s, Fail(CommandFrame(commandId), MsgCommandNotFound))
               /\ executed' = executed
          ELSE /\ Put(s, Await(CommandFrame(commandId), "execute", <<>>))
               /\ executed' = Append(executed, commandId)
    /\ UNCHANGED <<vault, folders, Security, nWrites, SessionVars, PatchVars,
                   allowCommandExecution, tools, commands>>

\* executeCommandById answers, or throws and the handler's catch clause answers
ExecuteDone(s) ==
    /\ s \in Slots /\ reqs[s] # Idle /\ reqs[s].pc = "execute"
    /\ \E ok \in BOOLEAN :
          Put(s, IF ok THEN Success(reqs[s], {}, <<>>) ELSE Fail(reqs[s], MsgExecuteFailed))
    /\ UNCHANGED <<vault, folders, Security, nWrites, Others>>

-----------------------------------------------------------------------------
(* The server's life cycle and what happens outside the tools              *)

\* McpIgnoreManager.load, up to await this.app.vault.read(file)
LoadEnter(why) ==
    IF ~IsFile(McpIgnorePath)
    THEN /\ patterns' = <<>>
         /\ enabled' = FALSE
         /\ loadPc' = "idle"
    ELSE /\ loadPc' = why
         /\ UNCHANGED <<patterns, enabled>>

\* McpHttpServer.start: initialize, setReadOnlyMode(settings.readOnlyMode), listen
StartServer ==
    /\ ~isRunning /\ loadPc = "idle"
    /\ LoadEnter("start")
    /\ IF IsFile(McpIgnorePath)
       THEN UNCHANGED <<readOnlyMode, isRunning>>
       ELSE /\ isRunning' = TRUE
            /\ \E b \in BOOLEAN : readOnlyMode' = b
    /\ UNCHANGED <<vault, folders, reqs, nWrites, Others>>

\* SecurityManager.reloadIgnorePatterns
ReloadIgnorePatterns ==
    /\ isRunning /\ loadPc = "idle"
    /\ LoadEnter("reload")
    /\ UNCHANGED <<vault, folders, readOnlyMode, isRunning, reqs, nWrites, Others>>

\* a load that adds the rules it read to the rules it had
LoadDoneKeeping ==
    /\ loadPc # "idle"
    /\ \E ok \in BOOLEAN :
          IF ok /\ IsFile(McpIgnorePath)
          THEN /\ patterns' = patterns \o parsePatterns(vault[McpIgnorePath])
               /\ enabled' = (Len(patterns') > 0)
          ELSE /\ patterns' = <<>>
               /\ enabled' = FALSE
    /\ loadPc' = "idle"
    /\ IF loadPc = "start"
       THEN /\ isRunning' = TRUE
            /\ \E b \in BOOLEAN : readOnlyMode' = b
       ELSE UNCHANGED <<readOnlyMode, isRunning>>
    /\ UNCHANGED <<vault, folders, reqs, nWrites, Others>>

\* McpIgnoreManager.load after the read: the content is parsed, or the read
\* failed and the catch clause disables the engine
LoadDone ==
    /\ loadPc # "idle"
    /\ \E ok \in BOOLEAN :
          IF ok /\ IsFile(McpIgnorePath)
          THEN /\ patterns' = parsePatterns(vault[McpIgnorePath])
               /\ enabled' = (Len(parsePatterns(vault[McpIgnorePath])) > 0)
          ELSE /\ patterns' = <<>>
               /\ enabled' = FALSE
    /\ loadPc' = "idle"
    /\ IF loadPc = "start"
       THEN /\ isRunning' = TRUE
            /\ \E b \in BOOLEAN : readOnlyMode' = b
       ELSE UNCHANGED <<readOnlyMode, isRunning>>
    /\ UNCHANGED <<vault, folders, reqs, nWrites, Others>>

\* DataviewMcpPlugin.updateSecurityMode -> SecurityManager.setReadOnlyMode
SetReadOnlyMode ==
    /\ isRunning
    /\ \E b \in BOOLEAN : readOnlyMode' = b
    /\ UNCHANGED <<vault, folders, patterns, enabled, loadPc, isRunning, reqs, nWrites, Others>>

\* the user writes, or removes, the rule file in the vault
EditIgnoreFileWatched ==
    /\ \E c \in RuleFiles \cup {NoFile} :
          /\ c # vault[McpIgnorePath]
          /\ vault' = [vault EXCEPT ![McpIgnorePath] = c]
          /\ patterns' = IF c = NoFile THEN <<>> ELSE parsePatterns(c)
          /\ enabled' = (Len(patterns') > 0)
    /\ UNCHANGED <<folders, loadPc, readOnlyMode, isRunning, reqs, nWrites, Others>>

EditIgnoreFile ==
    /\ \E c \in RuleFiles \cup {NoFile} :
          /\ c # vault[McpIgnorePath]
          /\ vault' = [vault EXCEPT ![McpIgnorePath] = c]
    /\ UNCHANGED <<folders, Security, reqs, nWrites, Others>>

Init ==
    /\ \E doc \in NoteDocs, rules \in RuleFiles \cup {NoFile} :
          vault = [p \in VaultPaths |->
                      IF p = NotePath THEN doc
                      ELSE IF p = PromptPath THEN PromptDoc
                      ELSE IF p = McpIgnorePath THEN rules
                      ELSE NoFile]
    /\ folders = {PromptsFolder}
    /\ patterns = <<>>
    /\ enabled = FALSE
    /\ loadPc = "idle"
    /\ readOnlyMode = FALSE
    /\ isRunning = FALSE
    /\ reqs = [s \in {1} |-> Idle]
    /\ nWrites = 0
    /\ CommandsIdle
    /\ SessionsIdle
    /\ PatchIdle

Next ==
    \/ StartServer
    \/ ReloadIgnorePatterns
    \/ LoadDone
    \/ SetReadOnlyMode
    \/ EditIgnoreFile
    \/ \E s \in Slots :
          \/ CallVaultRead(s)
          \/ CallVaultList(s)
          \/ CallVaultSearch(s)
          \/ CallVaultCreate(s)
          \/ CallVaultUpdate(s)
          \/ CallVaultDelete(s)
          \/ CallVaultEdit(s)
          \/ CallVaultEditLine(s)
          \/ CallVaultPatch(s)
          \/ CallGraphInfo(s)
          \/ CallGraphLinks(s)
          \/ CallActiveNote(s)
          \/ CallDataviewQuery(s)
          \/ CallListPrompts(s)
          \/ CallGetPrompt(s)
          \/ ReadDone(s)
          \/ ModifyDone(s)
          \/ CreateFolderDone(s)
          \/ CreateDone(s)
          \/ TrashDone(s)
          \/ SearchDone(s)
          \/ QueryDone(s)
          \/ Reply(s)

Spec == Init /\ [][Next]_vars

\* the security manager and the rule file with no tool but vault_read
NextRules ==
    \/ StartServer
    \/ ReloadIgnorePatterns
    \/ LoadDone
    \/ SetReadOnlyMode
    \/ EditIgnoreFile
    \/ \E s \in Slots :
          \/ CallVaultRead(s)
          \/ ReadDone(s)
          \/ Reply(s)

SpecRules == Init /\ [][NextRules]_vars

-----------------------------------------------------------------------------
(* Two calls of the edit tools in flight on one note                       *)

InitRace ==
    /\ vault = [p \in VaultPaths |-> IF p = NotePath THEN DocPlain ELSE NoFile]
    /\ folders = {}
    /\ patterns = <<>>
    /\ enabled = FALSE
    /\ loadPc = "idle"
    /\ readOnlyMode = FALSE
    /\ isRunning = FALSE
    /\ reqs = [s \in {1, 2} |-> Idle]
    /\ nWrites = 0
    /\ CommandsIdle
    /\ SessionsIdle
    /\ PatchIdle

NextRace ==
    \/ StartServer
    \/ \E s \in Slots :
          \/ CallVaultEdit(s)
          \/ CallVaultEditLine(s)
          \/ ReadDone(s)
          \/ ModifyDone(s)
          \/ Reply(s)

SpecRace == InitRace /\ [][NextRace]_vars

-----------------------------------------------------------------------------
(* The command tools on their own, with the setting and the command list   *)

InitCommands ==
    /\ vault = [p \in VaultPaths |-> IF p = NotePath THEN DocPlain ELSE NoFile]
    /\ folders = {}
    /\ patterns = <<>>
    /\ enabled = FALSE
    /\ loadPc = "idle"
    /\ readOnlyMode = FALSE
    /\ isRunning = FALSE
    /\ reqs = [s \in {1} |-> Idle]
    /\ nWrites = 0
    /\ allowCommandExecution \in BOOLEAN
    /\ tools = {}
    /\ commands \in SUBSET CommandIds
    /\ executed = <<>>
    /\ SessionsIdle
    /\ PatchIdle

NextCommands ==
    \/ RegisterCapabilities
    \/ (tools # {} /\ StartServer)
    \/ SetReadOnlyMode
    \/ SetAllowCommandExecution
    \/ CommandsChange
    \/ \E s \in Slots :
          \/ CallUnknownTool(s)
          \/ CallCommandList(s)
          \/ CallCommandExecute(s)
          \/ ExecuteDone(s)
          \/ Reply(s)

SpecCommands == InitCommands /\ [][NextCommands]_vars

-----------------------------------------------------------------------------
(* The dispatch of tools/call over the registry, command tools included    *)

InitDispatch ==
    /\ vault = [p \in VaultPaths |->
                  IF p = NotePath THEN DocPlain
                  ELSE IF p = PromptPath THEN PromptDoc
                  ELSE NoFile]
    /\ folders = {PromptsFolder}
    /\ patterns = <<>>
    /\ enabled = FALSE
    /\ loadPc = "idle"
    /\ readOnlyMode = FALSE
    /\ isRunning = FALSE
    /\ reqs = [s \in {1} |-> Idle]
    /\ nWrites = 0
    /\ allowCommandExecution \in BOOLEAN
    /\ tools = {}
    /\ commands = {"app:reload"}
    /\ executed = <<>>
    /\ SessionsIdle
    /\ PatchIdle

NextDispatch ==
    \/ RegisterCapabilities
    \/ (tools # {} /\ StartServer)
    \/ SetReadOnlyMode
    \/ \E s \in Slots :
          \/ CallUnknownTool(s)
          \/ CallCommandList(s)
          \/ CallCommandExecute(s)
          \/ CallVaultSearchNoQuery(s)
          \/ CallVaultRead(s)
          \/ CallVaultList(s)
          \/ CallVaultSearch(s)
          \/ CallVaultCreate(s)
          \/ CallVaultUpdate(s)
          \/ CallVaultDelete(s)
          \/ CallVaultEdit(s)
          \/ CallVaultEditLine(s)
          \/ CallVaultPatch(s)
          \/ CallGraphInfo(s)
          \/ CallGraphLinks(s)
          \/ CallActiveNote(s)
          \/ CallDataviewQuery(s)
          \/ ExecuteDone(s)
          \/ ReadDone(s)
          \/ ModifyDone(s)
          \/ CreateFolderDone(s)
          \/ CreateDone(s)
          \/ TrashDone(s)
          \/ SearchDone(s)
          \/ QueryDone(s)
          \/ Reply(s)

SpecDispatch == InitDispatch /\ [][NextDispatch]_vars

-----------------------------------------------------------------------------
(* The prompt catalog on its own: layouts of the prompts folder            *)

\* markdown files under the prompts folder: two in it, two in a sub-folder
FlatQ == PromptPath
FlatZ == <<"p", SLASH, "z">> \o MD
NestedQ == <<"p", SLASH, "d", SLASH, "q">> \o MD
NestedZ == <<"p", SLASH, "d", SLASH, "z">> \o MD
LayoutPaths == {FlatQ, FlatZ, NestedQ, NestedZ}

\* what each of them holds when it is there
LayoutDoc(p) ==
    CASE p = FlatQ -> DocFm
      [] p = FlatZ -> <<"z", "z">>
      [] p = NestedQ -> <<"n", "q">>
      [] OTHER -> <<"n", "z">>

InitPrompts ==
    /\ \E there \in SUBSET LayoutPaths :
          vault = [p \in LayoutPaths \cup {NotePath} |->
                      IF p = NotePath THEN DocPlain
                      ELSE IF p \in there THEN LayoutDoc(p)
                      ELSE NoFile]
    /\ folders = {PromptsFolder, PromptsFolder \o <<SLASH, "d">>}
    /\ patterns = <<>>
    /\ enabled = FALSE
    /\ loadPc = "idle"
    /\ readOnlyMode = FALSE
    /\ isRunning = FALSE
    /\ reqs = [s \in {1} |-> Idle]
    /\ nWrites = 0
    /\ CommandsIdle
    /\ SessionsIdle
    /\ PatchIdle

NextPrompts ==
    \/ StartServer
    \/ \E s \in Slots :
          \/ CallListPrompts(s)
          \/ CallGetPrompt(s)
          \/ ReadDone(s)
          \/ Reply(s)

SpecPrompts == InitPrompts /\ [][NextPrompts]_vars

-----------------------------------------------------------------------------
(* Properties of the tools under Spec                                      *)

\* slot s finishes a call in this step
Finishes(s) ==
    /\ reqs'[s] # reqs[s]
    /\ reqs'[s] # Idle
    /\ reqs'[s].pc = "done"

\* slot s is entered by a call of a write tool in this step
EntersWrite(s) ==
    /\ reqs[s] = Idle
    /\ reqs'[s] # Idle
    /\ reqs'[s].tool \in WriteTools

\* the path the store call of a write tool is applied to
StorePath(f) ==
    LET normalized == normalizePath(f.path)
    IN  IF f.tool = "vault_create" /\ ~EndsWith(normalized, MD)
        THEN normalized \o MD
        ELSE normalized

\* C1: while read-only mode is on, a call of any write tool (vault_create,
\* vault_update, vault_delete, vault_edit, vault_edit_line, vault_patch) ends at
\* once with the read-only error: no store call is issued and the vault and its
\* folders are unchanged.
C1_ReadOnlyBlocksWrites ==
    [][\A s \in Slots :
          (readOnlyMode /\ EntersWrite(s)) =>
              /\ reqs'[s].pc = "done"
              /\ reqs'[s].isError
              /\ reqs'[s].msg = MsgReadOnly
              /\ reqs'[s].modifyCalls = 0
              /\ vault' = vault
              /\ folders' = folders]_vars

C1_Witness ==
    \E s \in Slots :
        /\ reqs[s] # Idle
        /\ reqs[s].tool \in WriteTools
        /\ reqs[s].pc = "done"
        /\ reqs[s].msg = MsgReadOnly
        /\ readOnlyMode

\* C2: a call of a write tool made while the path its store call would be
\* applied to is excluded by the active rules ends at once with the
\* access-denied error (read-only mode off, so that error is not the earlier one).
C2_ExcludedPathNeverWritten ==
    [][\A s \in Slots :
          (~readOnlyMode /\ EntersWrite(s) /\ isExcluded(StorePath(reqs'[s]))) =>
              /\ reqs'[s].pc = "done"
              /\ reqs'[s].isError
              /\ reqs'[s].msg = MsgIgnored]_vars

\* C3: a read operation that finishes returns no document (path or content)
\* that the active rules exclude.
C3_ReadsPassTheGate ==
    [][\A s \in Slots :
          (Finishes(s) /\ reqs'[s].tool \in ReadTools) =>
              \A p \in reqs'[s].outPaths : ~isExcluded(p)]_vars

\* C4: the rules file .mcpignore is excluded in every state, whatever the
\* loaded rules are and whether or not the engine is enabled.
C4_RulesFileAlwaysExcluded == isExcluded(McpIgnorePath)

\* C5: no tool writes the rules file: validateWrite refuses every path that
\* normalizes to .mcpignore, and no handler awaits a store call on it.
C5_RulesFileNeverWritten ==
    /\ \A path \in ArgPaths :
          normalizePath(path) = McpIgnorePath => ~validateWrite(path).ok
    /\ \A s \in Slots :
          (reqs[s] # Idle /\ reqs[s].tool \in WriteTools) =>
              reqs[s].target # McpIgnorePath

C5_Witness ==
    \E s \in Slots :
        /\ reqs[s] # Idle
        /\ reqs[s].tool \in WriteTools
        /\ normalizePath(reqs[s].path) = McpIgnorePath
        /\ reqs[s].pc = "done"
        /\ reqs[s].msg = MsgProtected
        /\ ~enabled
        /\ IsFile(McpIgnorePath)

\* C9 as the specification states it: an edit tool that has finished either
\* called modify once and reports success, or called it never and reports an error.
C9_OneModifyOrNone ==
    \A s \in Slots :
        (reqs[s] # Idle /\ reqs[s].pc = "done" /\ reqs[s].tool \in EditTools) =>
            \/ reqs[s].modifyCalls = 1 /\ ~reqs[s].isError
            \/ reqs[s].modifyCalls = 0 /\ reqs[s].isError

\* C9: the step in which vault_edit, vault_edit_line or vault_patch finishes is
\* one of three: success after one modify call that stored the complete new
\* content of the one document; an error with no modify call and the vault
\* unchanged (so for a patch whose heading, block or frontmatter is not
\* resolved); or the error of the store after the one modify call failed.
C9_ModifyAtMostOnce ==
    [][\A s \in Slots :
          (Finishes(s) /\ reqs'[s].tool \in EditTools) =>
              LET f == reqs'[s]
              IN  \/ /\ ~f.isError
                     /\ f.modifyCalls = 1
                     /\ vault' = [vault EXCEPT ![f.target] = f.newContent]
                  \/ /\ f.isError
                     /\ f.modifyCalls = 0
                     /\ vault' = vault
                  \/ /\ f.isError
                     /\ f.modifyCalls = 1
                     /\ f.msg = MsgStore
                     /\ vault' = vault]_vars

C9_Witness ==
    \E s \in Slots :
        /\ reqs[s] # Idle
        /\ reqs[s].tool = "vault_patch"
        /\ reqs[s].pc = "done"
        /\ reqs[s].msg = "Heading not found"
        /\ reqs[s].modifyCalls = 0

-----------------------------------------------------------------------------
(* McpHttpServer: the session router on /mcp                               *)

\* the identifiers randomUUID can return
MaxSessions == 2
\* the most requests one behaviour answers
MaxRequests == 4

SessionIds == 1..MaxSessions
\* what a client can send as mcp-session-id: nothing, or any identifier
ClientSids == {NoSid} \cup SessionIds
\* the JSON-RPC messages a client posts
Kinds == {"initialize", "call"}

MsgUnauthorized == "Unauthorized"
MsgReinitialize == "Session expired or invalid. Please re-initialize."
MsgSessionClosed == "Session closed"
MsgSessionNotFound == "Session not found"
MsgAlreadyInitialized == "Invalid Request: Server already initialized"
MsgNotInitialized == "Bad Request: Server not initialized"
MsgInternal == "Internal error"

Respond(req, status, code, message, inst, newSid) ==
    [n |-> http.n + 1, method |-> req.method, sid |-> req.sid, auth |-> req.auth,
     kind |-> req.kind, status |-> status, code |-> code, message |-> message,
     inst |-> inst, newSid |-> newSid]

Request(method, sid, auth, kind) ==
    [method |-> method, sid |-> sid, auth |-> auth, kind |-> kind]

\* an identifier that a closed session may have held
reusedUUID == SessionIds \ DOMAIN transports

\* randomUUID(): the identifiers it can return; a version 4 UUID is taken to
\* differ from every one returned before
randomUUID == SessionIds \ Range(issued)

\* createMcpServer(): its n-th call returns a new Server object
createMcpServer(n) == n

\* any transport of the table
AnyTransport(sessionId) == transports[CHOOSE k \in DOMAIN transports : TRUE]

\* this.transports.get(sessionId)
ExistingTransport(sessionId) == transports[sessionId]

\* a router that opens a session for every identifier it does not know
RouteLenient(sessionId) ==
    IF sessionId # NoSid /\ sessionId \in DOMAIN transports THEN "existing" ELSE "new"

\* handleMcpRequest: the branch taken for the mcp-session-id header
Route(sessionId) ==
    IF sessionId # NoSid /\ sessionId \in DOMAIN transports THEN "existing"
    ELSE IF sessionId # NoSid /\ sessionId \notin DOMAIN transports THEN "invalid"
    ELSE "new"

\* the auth middleware lets the request through
Authorized(req) == req.auth

\* await transport.handleRequest(req, res) on transport i, with the catch clause
\* of handleMcpRequest: the transport accepts initialize once and other
\* messages only after it
HandleRequest(req, i, throws) ==
    IF throws
    THEN /\ http' = Respond(req, 500, -32603, MsgInternal, i, NoSid)
         /\ instances' = instances
    ELSE IF req.kind = "initialize"
    THEN IF instances[i].initialized
         THEN /\ http' = Respond(req, 400, -32600, MsgAlreadyInitialized, i, NoSid)
              /\ instances' = instances
         ELSE /\ http' = Respond(req, 200, 0, "", i, instances[i].sid)
              /\ instances' = [instances EXCEPT ![i].initialized = TRUE]
    ELSE IF ~instances[i].initialized
         THEN /\ http' = Respond(req, 400, -32000, MsgNotInitialized, i, NoSid)
              /\ instances' = instances
         ELSE /\ http' = Respond(req, 200, 0, "", i, NoSid)
              /\ instances' = instances

\* the auth middleware answers 401
Unauthorized ==
    /\ http.n < MaxRequests
    /\ \E method \in {"POST", "DELETE"}, sid \in ClientSids, kind \in Kinds :
          http' = Respond(Request(method, sid, FALSE, kind), 401, 0, MsgUnauthorized,
                          0, NoSid)
    /\ UNCHANGED <<transports, instances, connecting, issued, ToolVars, PatchVars>>

\* POST /mcp with the identifier of a session of the table
PostExisting ==
    /\ http.n < MaxRequests
    /\ \E sid \in ClientSids, kind \in Kinds, throws \in BOOLEAN :
          LET req == Request("POST", sid, TRUE, kind)
          IN  /\ Authorized(req)
              /\ Route(sid) = "existing"
              /\ HandleRequest(req, ExistingTransport(sid), throws)
    /\ UNCHANGED <<transports, connecting, issued, ToolVars, PatchVars>>

\* POST /mcp with an identifier that is not in the table
PostInvalid ==
    /\ http.n < MaxRequests
    /\ \E sid \in ClientSids, kind \in Kinds :
          LET req == Request("POST", sid, TRUE, kind)
          IN  /\ Authorized(req)
              /\ Route(sid) = "invalid"
              /\ http' = Respond(req, 400, -32000, MsgReinitialize, 0, NoSid)
    /\ UNCHANGED <<transports, instances, connecting, issued, ToolVars, PatchVars>>

\* POST /mcp that opens a session, up to await mcpServer.connect(transport)
PostNew ==
    /\ http.n + Cardinality(connecting) < MaxRequests
    /\ \E sid \in ClientSids, kind \in Kinds, newSessionId \in randomUUID :
          LET req == Request("POST", sid, TRUE, kind)
              i == Len(instances) + 1
          IN  /\ Authorized(req)
              /\ Route(sid) = "new"
              /\ issued' = Append(issued, newSessionId)
              /\ instances' = Append(instances,
                                     [sid |-> newSessionId, server |-> createMcpServer(i),
                                      initialized |-> FALSE, closed |-> FALSE])
              /\ connecting' = connecting \cup {[inst |-> i, req |-> req]}
    /\ UNCHANGED <<transports, http, ToolVars, PatchVars>>

\* connect has answered: the transport is put in the table and handles the
\* request; or connect has failed and the catch clause answers
ConnectDone ==
    /\ http.n < MaxRequests
    /\ \E c \in connecting, ok \in BOOLEAN, throws \in BOOLEAN :
          /\ connecting' = connecting \ {c}
          /\ IF ok
             THEN /\ transports' = [k \in DOMAIN transports \cup {instances[c.inst].sid} |->
                                      IF k = instances[c.inst].sid THEN c.inst
                                      ELSE transports[k]]
                  /\ HandleRequest(c.req, c.inst, throws)
             ELSE /\ transports' = transports
                  /\ instances' = instances
                  /\ http' = Respond(c.req, 500, -32603, MsgInternal, 0, NoSid)
    /\ UNCHANGED <<issued, ToolVars, PatchVars>>

\* DELETE /mcp: the session is closed and leaves the table, or 404
DeleteSession ==
    /\ http.n < MaxRequests
    /\ \E sid \in ClientSids :
          LET req == Request("DELETE", sid, TRUE, "")
          IN  /\ Authorized(req)
              /\ IF sid # NoSid /\ sid \in DOMAIN transports
                 THEN LET transport == ExistingTransport(sid)
                      IN  /\ instances' = [instances EXCEPT ![transport].closed = TRUE]
                          /\ transports' = [k \in DOMAIN transports \ {sid} |->
                                               transports[k]]
                          /\ http' = Respond(req, 200, 0, MsgSessionClosed, transport,
                                              NoSid)
                 ELSE /\ instances' = instances
                      /\ transports' = transports
                      /\ http' = Respond(req, 404, 0, MsgSessionNotFound, 0, NoSid)
    /\ UNCHANGED <<connecting, issued, ToolVars, PatchVars>>

InitSession ==
    /\ SessionsIdle
    /\ ToolsIdle
    /\ PatchIdle

NextSession ==
    \/ Unauthorized
    \/ PostExisting
    \/ PostInvalid
    \/ PostNew
    \/ ConnectDone
    \/ DeleteSession

SpecSession == InitSession /\ [][NextSession]_vars

-----------------------------------------------------------------------------
(* Properties of the session router under SpecSession                      *)

\* this step answers a request
Answers == http'.n # http.n

\* the transports whose state or place in the table this step changes
Touched ==
    {i \in DOMAIN instances' : i \notin DOMAIN instances \/ instances'[i] # instances[i]}
    \cup {transports[k] : k \in {k \in DOMAIN transports :
                                    k \notin DOMAIN transports'}}
    \cup {transports[k] : k \in {k \in DOMAIN transports \cap DOMAIN transports' :
                                    transports'[k] # transports[k]}}
    \cup {transports'[k] : k \in DOMAIN transports' \ DOMAIN transports}

C8_SessionsIsolated ==
    [][/\ Cardinality(Touched) <= 1
       /\ \A i, j \in DOMAIN instances :
             i # j => instances[i].server # instances[j].server
       /\ (Answers /\ http'.auth /\ http'.sid # NoSid /\ http'.sid \in DOMAIN transports) =>
             /\ http'.inst = transports[http'.sid]
             /\ instances[http'.inst].sid = http'.sid
             /\ Touched \subseteq {http'.inst}]_vars

\* two sessions are active, one has completed its handshake and serves a call
\* while the other has not
C8_Witness ==
    \E a, b \in DOMAIN transports :
        /\ a # b
        /\ instances[transports[a]].initialized
        /\ ~instances[transports[b]].initialized
        /\ http.sid = a
        /\ http.kind = "call"
        /\ http.status = 200

\* this step answers a DELETE that found its session
ClosesSession == Answers /\ http'.method = "DELETE" /\ http'.status = 200

\* this step answers a request whose transport raised an error while handling it
TransportError == Answers /\ http'.status = 500 /\ http'.inst # 0

\* the session of transport i is gone after this step: the transport is
\* closed and its identifier is not in the table
Destroyed(i) ==
    /\ instances'[i].closed
    /\ instances'[i].sid \notin DOMAIN transports'

\* C26 as the specification states it: a session is destroyed on explicit
\* close and on transport error: after the answer to a DELETE for an active
\* session, and after the answer to a request whose transport raised an error,
\* the transport is closed and its identifier has left the session table.
C26_DestroyedOnCloseAndError ==
    [][(ClosesSession \/ TransportError) => Destroyed(http'.inst)]_vars

-----------------------------------------------------------------------------
(* The patch functions on their own                                        *)

\* the longest document, in lines, that patchHeading is applied to
MaxLines == 3

NoResult == [ok |-> FALSE, text |-> <<>>, msg |-> "<not called>"]

\* the lines of the documents: headings A and X of level 1, B of level 2, text
HeadingLines == {<<HASH, " ", "A">>, <<HASH, " ", "X">>, <<HASH, HASH, " ", "B">>, <<"t">>}

HeadingDocs ==
    {JoinLines(ls) : ls \in UNION {[1..n -> HeadingLines] : n \in 1..MaxLines}}

HeadingPaths == {<<"A", ":", ":", "B">>, <<"X", ":", ":", "B">>, <<"A">>, <<"B">>}

Operations == {"append", "prepend", "replace"}

\* the content patched in: a line of text, a heading of level 1, a heading of
\* level 3, two lines
PatchContents == {NewText, <<HASH, " ", "Z">>, <<HASH, HASH, HASH, " ", "c">>,
                  <<"y", NL, "w">>}

\* the lines of the frontmatter blocks; the last one holds the delimiter's text
FmLines == {<<"k", ":", " ", "v">>, <<"j", ":", " ", "w">>, <<"k", "k", ":", " ", "v">>,
            <<"k", ":", " ", "a", "-", "-", "-", "b">>}

\* documents that do not begin with the delimiter
PlainDocs == {<<>>, <<"x">>, <<"x", NL>> \o DASHES \o <<NL, "k", ":", " ", "v">>}

\* documents with a closed frontmatter block, and the notes of the vault
FmDocs ==
    {DASHES \o <<NL>> \o JoinLines(ls) \o <<NL>> \o DASHES \o rest :
        ls \in UNION {[1..n -> FmLines] : n \in 1..(MaxLines - 1)},
        rest \in {<<>>, <<NL, "x">>}}
    \cup NoteDocs \cup PlainDocs

\* lines with the anchor ^b, with the anchor ^bz, with no anchor
BlockLines == {<<"x", " ", "^", "b">>, <<" ", "u", " ", " ", "^", "b">>, <<"^", "b">>,
               <<"x", " ", "^", "b", "z">>, <<"t">>}

BlockDocs == {JoinLines(ls) : ls \in UNION {[1..n -> BlockLines] : n \in 1..(MaxLines - 1)}}

FmFields == {<<"k">>, <<"j">>, <<"m">>}

PatchCall(fn, content, target, operation, patchContent) ==
    [fn |-> fn, content |-> content, target |-> target, operation |-> operation,
     patchContent |-> patchContent]

PatchInputs ==
    {PatchCall("heading", c, t, o, pc) :
        c \in HeadingDocs, t \in HeadingPaths, o \in Operations, pc \in PatchContents}
    \cup {PatchCall("block", c, t, o, NewText) :
             c \in {DocPlain, DocFm}, t \in {<<"b">>, <<"z">>}, o \in Operations}
    \cup {PatchCall("block", c, t, o, pc) :
             c \in BlockDocs, t \in {<<"b">>, <<"z">>}, o \in Operations,
             pc \in {NewText, <<"y", NL, "w">>}}
    \cup {PatchCall("frontmatter", c, t, o, pc) :
             c \in FmDocs, t \in FmFields, o \in Operations, pc \in PatchContents}

PatchHeadingCall ==
    /\ pin.fn = "heading" /\ pout = NoResult
    /\ pout' = patchHeading(pin.content, pin.target, pin.operation, pin.patchContent)
    /\ UNCHANGED <<pin, ToolVars, SessionVars>>

PatchBlockCall ==
    /\ pin.fn = "block" /\ pout = NoResult
    /\ pout' = patchBlock(pin.content, pin.target, pin.operation, pin.patchContent)
    /\ UNCHANGED <<pin, ToolVars, SessionVars>>

PatchFrontmatterCall ==
    /\ pin.fn = "frontmatter" /\ pout = NoResult
    /\ pout' = patchFrontmatter(pin.content, pin.target, pin.operation, pin.patchContent)
    /\ UNCHANGED <<pin, ToolVars, SessionVars>>

InitPatch ==
    /\ pin \in PatchInputs
    /\ pout = NoResult
    /\ ToolsIdle
    /\ SessionsIdle

NextPatch ==
    \/ PatchHeadingCall
    \/ PatchBlockCall
    \/ PatchFrontmatterCall

SpecPatch == InitPatch /\ [][NextPatch]_vars

-----------------------------------------------------------------------------
(* Properties of the patch functions under SpecPatch                       *)

\* line a (0-based) is a heading with the given text whose section holds line b
InSectionOf(lines, text, a, b) ==
    /\ HeadingMatch(lines[a + 1]).hit
    /\ Trim(HeadingMatch(lines[a + 1]).text) = text
    /\ \A k \in (a + 1)..(b - 1) :
          \/ NextHeadingLevel(lines[k + 1]) = 0
          \/ NextHeadingLevel(lines[k + 1]) > HeadingMatch(lines[a + 1]).level

\* C10: when patchHeading resolves a path A::B, the heading it resolves for B
\* lies inside the section of a heading A: no heading at the level of that A
\* or a shallower one lies between the two.
C10_NestingEnforced ==
    (pin.fn = "heading" /\ pout.ok /\ Len(SplitPath(pin.target)) = 2) =>
        LET lines == SplitLines(pin.content)
            headings == SplitPath(pin.target)
            b == FindHeading(lines, headings, 0, 0, 0).targetStart
        IN  \E a \in 0..(b - 1) : InSectionOf(lines, headings[1], a, b)

\* the engine holds what a load of the rule file's present content gives
LoadedFromFile ==
    /\ IsFile(McpIgnorePath)
    /\ patterns = parsePatterns(vault[McpIgnorePath])
    /\ enabled = (Len(patterns) > 0)

\* a step that ends a load
LoadEnds == (loadPc # "idle" /\ loadPc' = "idle") \/ <<patterns, enabled>>' # <<patterns, enabled>>

\* C18 as the specification states it: a load run after a load, the rule
\* file's content being the same, leaves the result of isExcluded as it was
\* for every path.
C18_ReloadIdempotent ==
    [][(LoadedFromFile /\ loadPc # "idle" /\ loadPc' = "idle") =>
          \A p \in VaultPaths :
              isExcludedBy(patterns', enabled', p) = isExcludedBy(patterns, enabled, p)]_vars

\* C18: every load either has its read fail or finds no rule file, and leaves
\* the engine disabled without rules, or leaves isExcluded, for every path,
\* what the rules in the file's content give and nothing of what the engine
\* held before; so two loads that both read the same content agree on every
\* path.
C18_LoadDependsOnContentOnly ==
    [][LoadEnds =>
          \/ patterns' = <<>> /\ ~enabled'
          \/ /\ IsFile(McpIgnorePath)
             /\ \A p \in VaultPaths :
                   isExcludedBy(patterns', enabled', p)
                     = isExcludedBy(parsePatterns(vault[McpIgnorePath]),
                                    Len(parsePatterns(vault[McpIgnorePath])) > 0, p)]_vars

\* a reload is under way while the engine holds the rules of the same content
\* from the load before, and they exclude a path
C18_Witness ==
    /\ loadPc = "reload"
    /\ LoadedFromFile
    /\ vault[McpIgnorePath] = RulesTwo
    /\ isExcluded(SecretPath) /\ ~isExcluded(NotePath)

\* slot s is entered by a call of command_execute in this step
EntersCommandExecute(s) ==
    /\ reqs[s] = Idle
    /\ reqs'[s] # Idle
    /\ reqs'[s].tool = "command_execute"

\* C22: command_execute is registered exactly when command execution was
\* allowed at the registration; a command is handed to executeCommandById only
\* by a call of the registered tool made while read-only mode is off and the
\* id is in the list of commands; a call made in any other case is answered
\* with an error at once and executes nothing.
C22_CommandExecuteGuarded ==
    [][/\ tools' # tools => ("command_execute" \in tools' <=> allowCommandExecution)
       /\ executed' # executed =>
             /\ "command_execute" \in tools
             /\ ~readOnlyMode
             /\ \E id \in commands : executed' = Append(executed, id)
       /\ \A s \in Slots :
             (/\ EntersCommandExecute(s)
              /\ \/ "command_execute" \notin tools
                 \/ readOnlyMode
                 \/ reqs'[s].arg.kind \notin commands) =>
                 /\ reqs'[s].pc = "done"
                 /\ reqs'[s].isError
                 /\ executed' = executed]_vars

\* a listed command was executed and the call answered without error; the
\* command has since left the list and read-only mode is on
C22_Witness ==
    \E s \in Slots :
        /\ reqs[s] # Idle
        /\ reqs[s].tool = "command_execute"
        /\ reqs[s].pc = "done"
        /\ ~reqs[s].isError
        /\ executed = <<reqs[s].arg.kind>>
        /\ reqs[s].arg.kind \notin commands
        /\ readOnlyMode

\* the payload of a finished frame is an error payload or a success payload
OnePayload(f) ==
    /\ f.isError \in BOOLEAN
    /\ f.isError => /\ f.msg # ""
                    /\ f.outPaths = {} /\ f.outText = <<>> /\ f.outNames = {}
    /\ ~f.isError => f.msg = ""

C24_NoPathLock ==
    \A s \in Slots :
        (reqs[s] # Idle /\ reqs[s].tool \in EditTools) =>
            /\ reqs[s].pc = "read" => ENABLED ReadDone(s)
            /\ reqs[s].pc = "modify" => ENABLED ModifyDone(s)

\* the lost update: vault_edit (x -> y) and vault_edit_line (two lines before
\* line 1) both read the original note and both report success, and the note
\* holds the line edit only
C24_Witness ==
    /\ reqs[1] # Idle /\ reqs[2] # Idle
    /\ reqs[1].pc = "done" /\ reqs[2].pc = "done"
    /\ ~reqs[1].isError /\ ~reqs[2].isError
    /\ reqs[1].tool = "vault_edit" /\ reqs[2].tool = "vault_edit_line"
    /\ reqs[1].target = NotePath /\ reqs[2].target = NotePath
    /\ reqs[1].newContent = <<HASH, " ", "A", NL, "y", " ", "^", "b">>
    /\ reqs[2].newContent = <<"y", NL, "w", NL>> \o DocPlain
    /\ vault[NotePath] = reqs[2].newContent

\* C25 as the specification states it: the read-only flag holds for calls in
\* flight too: no edit call that was awaiting its read calls the store's
\* modify at a moment when the flag is set.
C25_NoModifyWhileReadOnly ==
    [][\A s \in Slots :
          (reqs[s] # Idle /\ reqs[s].pc = "read" /\ reqs'[s] # Idle
             /\ reqs'[s].pc = "modify") => ~readOnlyMode]_vars

\* the markdown files under the prompts folder, at any depth
PromptFiles ==
    {p \in DOMAIN vault :
        IsFile(p) /\ StartsWith(p, PromptsFolder \o <<SLASH>>) /\ EndsWith(p, MD)}

\* the text of a document after its frontmatter
BodyOf(content) ==
    IF StartsWith(content, DASHES) /\ IndexOf(content, DASHES, 3) # -1
    THEN Trim(SliceFrom(content, IndexOf(content, DASHES, 3) + 3))
    ELSE content

\* slot s ends a call of the tool in this step, the store having answered
CallEnds(s, tool) ==
    /\ reqs'[s] # reqs[s] /\ reqs'[s] # Idle
    /\ reqs'[s].pc = "done" /\ reqs'[s].tool = tool
    /\ reqs'[s].msg # MsgStore

\* C23 as the specification states it: listPrompts returns the names of the
\* markdown files under the prompts folder, sub-folders included, and
\* getPrompt of a name that is listed yields the body of the file the name was
\* listed from.
C23_CatalogAndRetrievalAgree ==
    [][\A s \in Slots :
          /\ CallEnds(s, "listPrompts") =>
                reqs'[s].outNames = {Basename(p) : p \in PromptFiles}
          /\ CallEnds(s, "getPrompt") =>
                \A p \in PromptFiles :
                    Basename(p) = reqs'[s].arg.text =>
                        /\ ~reqs'[s].isError
                        /\ reqs'[s].outText = BodyOf(vault[p])]_vars

\* the rule file is created, changed or deleted in this step
RuleFileChanges == vault'[McpIgnorePath] # vault[McpIgnorePath]

\* the answers of validateRead and validateWrite when the engine holds pats
\* and en and the read-only flag is ro
ReadAnswer(pats, en, p) ==
    IF isExcludedBy(pats, en, normalizePath(p)) THEN Deny(MsgIgnored)
    ELSE Pass(normalizePath(p))

WriteAnswer(ro, pats, en, p) ==
    IF ro THEN Deny(MsgReadOnly)
    ELSE IF isExcludedBy(pats, en, normalizePath(p)) THEN Deny(MsgIgnored)
    ELSE IF normalizePath(p) = McpIgnorePath THEN Deny(MsgProtected)
    ELSE Pass(normalizePath(p))

\* the four answers of the security manager are what they were, for every path
AnswersKept ==
    \A p \in ArgPaths \cup VaultPaths :
        /\ isExcludedBy(patterns', enabled', p) = isExcluded(p)
        /\ ReadAnswer(patterns, enabled, p) = validateRead(p)
        /\ ReadAnswer(patterns', enabled', p) = validateRead(p)
        /\ WriteAnswer(readOnlyMode, patterns, enabled, p) = validateWrite(p)
        /\ WriteAnswer(readOnlyMode', patterns', enabled', p) = validateWrite(p)
        /\ ReadAnswer(patterns', enabled', p).ok = isAccessible(p)

\* a change of the rule file changes no answer, and the engine changes only in
\* a step of initialize or reloadIgnorePatterns
OnlyOnExplicitLoad ==
    /\ RuleFileChanges => AnswersKept
    /\ <<patterns, enabled>>' # <<patterns, enabled>> =>
          (StartServer \/ ReloadIgnorePatterns \/ LoadDone)

\* the engine after the step excludes what the rules in the file exclude, and
\* nothing when there is no file
ReflectsFile ==
    \A p \in ArgPaths \cup VaultPaths :
        isExcludedBy(patterns', enabled', p)
          = IF IsFile(McpIgnorePath)
            THEN isExcludedBy(parsePatterns(vault[McpIgnorePath]),
                              Len(parsePatterns(vault[McpIgnorePath])) > 0, p)
            ELSE FALSE

\* C30 as the specification states it: creating, changing or deleting the rule
\* file leaves isExcluded, validateRead, validateWrite and isAccessible
\* unchanged for every path until initialize or reloadIgnorePatterns is
\* invoked, and after that load the answers reflect the file's content.
C30_OnlyOnExplicitLoad ==
    [][/\ OnlyOnExplicitLoad
       /\ (loadPc # "idle" /\ loadPc' = "idle") => ReflectsFile]_vars

\* C30: creating, changing or deleting the rule file leaves the four answers
\* unchanged for every path until initialize or reloadIgnorePatterns is
\* invoked; after a load whose read of the file succeeds the answers reflect
\* the file's content, and after a load whose read fails the engine is
\* disabled and excludes nothing.
C30_OnlyOnExplicitLoadOrDisabled ==
    [][/\ OnlyOnExplicitLoad
       /\ (loadPc # "idle" /\ loadPc' = "idle") =>
             (ReflectsFile \/ (patterns' = <<>> /\ ~enabled'))]_vars

\* the rule file was deleted after a load and its rules are still in force
C30_Witness ==
    /\ isRunning /\ loadPc = "idle"
    /\ vault[McpIgnorePath] = NoFile
    /\ enabled /\ patterns = parsePatterns(RulesTwo)
    /\ isExcluded(SecretPath)
    /\ ~validateRead(SecretPath).ok

\* the number of lines of a text: one more than its line breaks
LineCount(text) == Cardinality({i \in DOMAIN text : text[i] = NL}) + 1

\* slot s holds a vault_edit_line call whose read has just been answered with
\* the content of the document
EditLineRead(s) ==
    /\ reqs[s] # Idle /\ reqs[s].tool = "vault_edit_line" /\ reqs[s].pc = "read"
    /\ reqs'[s] # Idle /\ reqs'[s].pc # "read"
    /\ reqs'[s].msg # MsgStore

EditLineChecked(s) ==
    LET content == vault[reqs[s].target]
        n == reqs[s].arg.num
        g == reqs'[s]
    IN  IF n \in 1..(LineCount(content) + 1)
        THEN /\ g.pc = "modify" /\ g.modifyCalls = 1 /\ ~g.isError
             /\ (n = LineCount(content) + 1 /\ reqs[s].arg.mode \in {"before", "replace"})
                   => g.newContent = content \o <<NL>> \o reqs[s].arg.text
        ELSE /\ g.pc = "done" /\ g.isError /\ g.msg = MsgInvalidLine
             /\ g.modifyCalls = 0
             /\ vault' = vault

\* C15: the line-indexed edit accepts exactly the line numbers 1..lineCount+1:
\* with lineCount+1 and mode before or replace the new content is the document,
\* a line break and the supplied lines; with 0 or a number from lineCount+2 on
\* it answers the validation error without calling modify.
C15_LineNumberBounds ==
    [][\A s \in Slots : EditLineRead(s) => EditLineChecked(s)]_vars

\* the append at lineCount+1 with mode before on the two-line note
C15_Witness ==
    \E s \in Slots :
        /\ reqs[s] # Idle /\ reqs[s].tool = "vault_edit_line" /\ reqs[s].pc = "modify"
        /\ reqs[s].arg.num = 3 /\ reqs[s].arg.mode = "before"
        /\ vault[reqs[s].target] = DocPlain
        /\ reqs[s].newContent = DocPlain \o <<NL, "y", NL, "w">>

\* the body of the heading that headingPath resolves to in text: the lines
\* strictly between it and the next heading at its level or a shallower one
HeadingBody(text, headingPath) ==
    LET lines == SplitLines(text)
        t == FindHeading(lines, SplitPath(headingPath), 0, 0, 0)
    IN  JoinLines(SubSeq(lines, t.targetStart + 2, t.targetEnd))

\* the level of the heading that headingPath resolves to in text
HeadingLevel(text, headingPath) ==
    LET lines == SplitLines(text)
        t == FindHeading(lines, SplitPath(headingPath), 0, 0, 0)
    IN  HeadingMatch(lines[t.targetStart + 1]).level

\* text has a line that is a heading of the given level or a shallower one
HasHeadingUpTo(text, level) ==
    \E i \in DOMAIN SplitLines(text) :
        /\ NextHeadingLevel(SplitLines(text)[i]) # 0
        /\ NextHeadingLevel(SplitLines(text)[i]) <= level

Resolves(text, headingPath) ==
    FindHeading(SplitLines(text), SplitPath(headingPath), 0, 0, 0).targetStart # -1

ReplacedHeading ==
    /\ pin.fn = "heading"
    /\ pin.operation = "replace"
    /\ pout.ok

\* C11 as the specification states it: after replace with content C on a
\* heading that resolves, the same heading resolves in the result and its body
\* is exactly C, for every C.
C11_ReplaceRoundTrip ==
    ReplacedHeading =>
        /\ Resolves(pout.text, pin.target)
        /\ HeadingBody(pout.text, pin.target) = pin.patchContent

\* C11: after replace with content C on a heading that resolves, where no line
\* of C is a heading at the level of the target or a shallower one, the same
\* heading resolves in the result and its body is exactly C, whatever the
\* previous body was.
C11_ReplaceRoundTripNoHeading ==
    (ReplacedHeading
       /\ ~HasHeadingUpTo(pin.patchContent, HeadingLevel(pin.content, pin.target))) =>
        /\ Resolves(pout.text, pin.target)
        /\ HeadingBody(pout.text, pin.target) = pin.patchContent

\* a body of two lines, one of them a deeper heading, is replaced by two lines
C11_Witness ==
    /\ ReplacedHeading
    /\ pin.patchContent = <<"y", NL, "w">>
    /\ HeadingBody(pin.content, pin.target) = <<HASH, HASH, " ", "B", NL, "t">>
    /\ HeadingBody(pout.text, pin.target) = pin.patchContent

\* the lines of the document up to the resolved heading, it included; the
\* lines of its span; the lines from the span's end on
LinesToHeading ==
    SubSeq(SplitLines(pin.content), 1,
           FindHeading(SplitLines(pin.content), SplitPath(pin.target), 0, 0, 0).targetStart + 1)
SpanLines ==
    SubSeq(SplitLines(pin.content),
           FindHeading(SplitLines(pin.content), SplitPath(pin.target), 0, 0, 0).targetStart + 2,
           FindHeading(SplitLines(pin.content), SplitPath(pin.target), 0, 0, 0).targetEnd)
LinesFromSpanEnd ==
    SubSeq(SplitLines(pin.content),
           FindHeading(SplitLines(pin.content), SplitPath(pin.target), 0, 0, 0).targetEnd + 1,
           Len(SplitLines(pin.content)))

\* C28: on a heading that resolves, prepend puts the content right after the
\* heading line and append right before the end of the span; with each of the
\* three operations the lines up to the heading and the lines from the span's
\* end on are unchanged and in order.
C28_HeadingPatchFrame ==
    (pin.fn = "heading" /\ pout # NoResult /\ Resolves(pin.content, pin.target)) =>
        /\ pout.ok
        /\ pout.text =
              JoinLines(LinesToHeading
                          \o (CASE pin.operation = "prepend" -> <<pin.patchContent>> \o SpanLines
                                [] pin.operation = "append" -> SpanLines \o <<pin.patchContent>>
                                [] OTHER -> <<pin.patchContent>>)
                          \o LinesFromSpanEnd)

\* append on a heading whose span ends at a heading of the same level
C28_Witness ==
    /\ pin.fn = "heading"
    /\ pin.operation = "append"
    /\ pin.target = <<"A">>
    /\ pin.patchContent = NewText
    /\ pin.content = <<HASH, " ", "A", NL, "t", NL, HASH, " ", "X">>
    /\ pout.ok
    /\ pout.text = <<HASH, " ", "A", NL, "t", NL, "y", NL, HASH, " ", "X">>

\* the line ends in the anchor token ^<identifier>
HasAnchor(line, id) == EndsWith(line, <<"^">> \o id)

\* the lines of the document that carry the anchor, 1-based
AnchorLines == {k \in DOMAIN SplitLines(pin.content) :
                   HasAnchor(SplitLines(pin.content)[k], pin.target)}

FirstAnchorLine == CHOOSE k \in AnchorLines : \A m \in AnchorLines : k <= m

\* the text before the anchor of a line, without the space that separates them
TextBeforeAnchor(line, id) == TrimEnd(Slice(line, 0, Len(line) - Len(id) - 1))

\* the line that carries the anchor as the claim has it after the patch
PatchedAnchorLine(line) ==
    (CASE pin.operation = "replace" -> pin.patchContent
       [] pin.operation = "prepend" ->
            pin.patchContent \o <<" ">> \o TextBeforeAnchor(line, pin.target)
       [] OTHER -> TextBeforeAnchor(line, pin.target) \o <<" ">> \o pin.patchContent)
    \o <<" ", "^">> \o pin.target

\* C29 as the specification states it: a block patch changes only the first
\* line that carries the token ^<identifier>: the text before the anchor is
\* replaced by, preceded by or followed by the content, the anchor stays at
\* the end of the line, every other line is unchanged; when no line carries
\* the anchor the patch fails.
C29_BlockPatchOnlyAnchorLine ==
    (pin.fn = "block" /\ pout # NoResult) =>
        IF AnchorLines = {} THEN ~pout.ok
        ELSE /\ pout.ok
             /\ pout.text =
                   JoinLines([SplitLines(pin.content) EXCEPT
                                ![FirstAnchorLine] = PatchedAnchorLine(@)])

\* content begins with the delimiter on a line of its own and the delimiter
\* occurs again
FmClosed(content) ==
    /\ StartsWith(content, DASHES \o <<NL>>)
    /\ IndexOf(content, DASHES, 3) # -1

\* the offset of the next occurrence of the delimiter: where the block ends
FmEnd(content) == IndexOf(content, DASHES, 3)

\* the offsets inside the block at which a line beginning with field: starts
FieldOffsets(content, field) ==
    {s \in 4..(FmEnd(content) - 1) :
        /\ s = 4 \/ content[s] = NL
        /\ s + Len(field) + 1 <= FmEnd(content)
        /\ OccursAt(content, field \o <<":">>, s)}

FieldStart(content, field) ==
    CHOOSE s \in FieldOffsets(content, field) :
        \A m \in FieldOffsets(content, field) : s <= m

\* where the line that starts at offset s ends: at its line break or at the
\* end of the block
FieldEnd(content, s) ==
    LET n == IndexOf(content, <<NL>>, s)
    IN  IF n = -1 THEN FmEnd(content) ELSE Min(n, FmEnd(content))

FieldText == pin.target \o <<":", " ">> \o pin.patchContent

C13_NewBlockPrepended ==
    (/\ pin.fn = "frontmatter"
     /\ pout # NoResult
     /\ ~StartsWith(pin.content, DASHES)) =>
        /\ pout.ok
        /\ pout.text = DASHES \o <<NL>> \o FieldText \o <<NL>> \o DASHES \o <<NL, NL>>
                          \o pin.content

\* append on a document without a block whose text holds the delimiter
\* further down
C13_Witness ==
    /\ pin.fn = "frontmatter"
    /\ pin.operation = "append"
    /\ pin.content = <<"x", NL>> \o DASHES \o <<NL, "k", ":", " ", "v">>
    /\ pin.target = <<"j">>
    /\ pin.patchContent = NewText
    /\ pout.ok
    /\ pout.text = DASHES \o <<NL, "j", ":", " ", "y", NL>> \o DASHES \o <<NL, NL>>
                      \o pin.content

\* the closing delimiter of content begins a line
FmWellFormed(content) ==
    /\ FmClosed(content)
    /\ content[FmEnd(content)] = NL
    /\ \/ FmEnd(content) + 3 = Len(content)
       \/ content[FmEnd(content) + 4] = NL

\* C14 as the specification states it: patching a field that a well-formed
\* block does not have appends <field>: <content> as a line of its own inside
\* the block; the closing delimiter still stands alone on its line, the
\* earlier lines of the block and the body are unchanged, and the result has a
\* well-formed block with the new field.
C14_AbsentFieldAppendedInside ==
    (/\ pin.fn = "frontmatter"
     /\ pout # NoResult
     /\ FmWellFormed(pin.content)
     /\ FieldOffsets(pin.content, pin.target) = {}) =>
        /\ pout.ok
        /\ FmWellFormed(pout.text)
        /\ StartsWith(pout.text, Slice(pin.content, 0, FmEnd(pin.content)))
        /\ SliceFrom(pout.text, FmEnd(pout.text))
             = SliceFrom(pin.content, FmEnd(pin.content))
        /\ FieldOffsets(pout.text, pin.target) # {}

-----------------------------------------------------------------------------
(* The pattern matcher on its own: one call of findBestMatch               *)

MaxContent == 3
MaxTarget == 3

MatchChars == {"a", "b", " "}

Texts(n) == UNION {[1..k -> MatchChars] : k \in 0..n}

\* thresholds in hundredths: below, at and above the default, the maximum of a
\* similarity, and a number above it
Thresholds == {50, 70, 100, 150}

MatchInputs ==
    {[fn |-> "match", content |-> c, target |-> t, threshold |-> th] :
        c \in Texts(MaxContent), t \in Texts(MaxTarget), th \in Thresholds}

\* const match = findBestMatch(content, oldText, threshold)
FindBestMatchCall ==
    /\ pin.fn = "match" /\ pout = NoResult
    /\ pout' = findBestMatch(pin.content, pin.target, pin.threshold)
    /\ UNCHANGED <<pin, ToolVars, SessionVars>>

InitMatch ==
    /\ pin \in MatchInputs
    /\ pout = NoResult
    /\ ToolsIdle
    /\ SessionsIdle

NextMatch == FindBestMatchCall

SpecMatch == InitMatch /\ [][NextMatch]_vars

-----------------------------------------------------------------------------
(* Properties of the pattern matcher under SpecMatch                       *)

Matched == pin.fn = "match" /\ pout # NoResult

\* the offsets at which the target occurs in the content
Occurrences == {k \in 0..Len(pin.content) : OccursAt(pin.content, pin.target, k)}

\* the similarity of the target and the span returned, both with whitespace
\* normalized
SpanSimilarity ==
    similarityRatio(normalizeWhitespace(pin.target),
                    normalizeWhitespace(Slice(pin.content, pout.start, pout.end)))

\* C16: when the target occurs in the content as an exact substring,
\* findBestMatch returns its first occurrence, the span [index, index +
\* len(target)) and similarity 1, whatever the threshold.
C16_ExactSubstringFirst ==
    (Matched /\ Occurrences # {}) =>
        /\ pout.found
        /\ \A k \in Occurrences : pout.start <= k
        /\ pout.start \in Occurrences
        /\ pout.end = pout.start + Len(pin.target)
        /\ pout.sim.num = pout.sim.den

\* the second of two occurrences is not the one returned, under a threshold
\* that no similarity reaches
C16_Witness ==
    /\ Matched
    /\ pin.content = <<"b", "a", "a">>
    /\ pin.target = <<"a">>
    /\ pin.threshold = 150
    /\ pout.found /\ pout.start = 1 /\ pout.end = 2

\* C17 as the specification states it: for every content, target and
\* threshold t, findBestMatch returns none or a candidate of similarity >= t.
C17_NeverBelowThreshold ==
    (Matched /\ pout.found) => SimGE(pout.sim, pin.threshold)

\* C17: for every content, target and threshold t <= 1, findBestMatch returns
\* none or a candidate whose similarity, which is that of the span returned, is
\* >= t; for t > 1 it returns none or an exact occurrence of the target with
\* similarity 1.
C17_NeverBelowThresholdUpToOne ==
    (Matched /\ pout.found) =>
        /\ pout.sim.num * SpanSimilarity.den = SpanSimilarity.num * pout.sim.den
        /\ IF pin.threshold <= 100
           THEN SimGE(pout.sim, pin.threshold)
           ELSE pout.start \in Occurrences /\ pout.sim.num = pout.sim.den

\* a window that is not the target is returned with a similarity between the
\* threshold and 1
C17_Witness ==
    /\ Matched /\ pout.found
    /\ Occurrences = {}
    /\ pin.threshold = 50
    /\ pout.sim.num < pout.sim.den
    /\ SimGE(pout.sim, 50)

\* the window sizes the claim names: the normalized target's length and that
\* length less and plus a tenth and a fifth, rounded down
TriedSizes ==
    LET n == Len(normalizeWhitespace(pin.target))
    IN  {w \in {n, (n * 8) \div 10, (n * 9) \div 10, (n * 11) \div 10, (n * 12) \div 10} :
            w > 0 /\ w <= Len(pin.content)}

\* the windows tried, as <<offset, size>>
TriedWindows == {<<i, w>> : i \in 0..Len(pin.content), w \in TriedSizes} \cap
                {x \in (0..Len(pin.content)) \X (0..Len(pin.content)) :
                    x[1] + x[2] <= Len(pin.content)}

WindowSimilarity(x) ==
    similarityRatio(normalizeWhitespace(pin.target),
                    normalizeWhitespace(Slice(pin.content, x[1], x[1] + x[2])))

-----------------------------------------------------------------------------
(* The ignore engine on its own: one rule tried on one path                *)

\* what a rule names: a directory, wildcards within a segment and across
\* segments, a file
RuleNames ==
    {<<"p", "r">>, <<"n", DOT, "m", "d">>, <<"p", "*">>, <<"*", DOT, "m", "d">>,
     <<"*", "*">>, <<"a", SLASH, "*", "*">>, <<"a", SLASH, "*">>,
     <<"?", DOT, "m", "d">>, <<"p", "?">>, <<"*", "*", SLASH, "n">>}

\* each name as it is, as a directory rule, anchored, and both
RulePatterns ==
    UNION {{nm, nm \o <<SLASH>>, <<SLASH>> \o nm, <<SLASH>> \o nm \o <<SLASH>>} :
              nm \in RuleNames}

RulePaths ==
    {<<"p", "r">>, <<"p", "r", SLASH, "n">>, <<"a", SLASH, "p", "r">>,
     <<"a", SLASH, "p", "r", SLASH, "n">>, <<"x", "p", "r", SLASH, "n">>,
     <<"r", SLASH, "n">>, <<"n", DOT, "m", "d">>, <<"a", SLASH, "n", DOT, "m", "d">>,
     <<"a", SLASH, "b", SLASH, "n", DOT, "m", "d">>, <<"n", "x", "m", "d">>,
     <<"p", "q">>, <<"p", SLASH, "q">>, <<"a">>, <<"a", SLASH, "b", SLASH, "n">>}

IgnoreInputs ==
    {[fn |-> "ignore", pattern |-> pt, path |-> pa] :
        pt \in RulePatterns, pa \in RulePaths}

\* isExcluded's loop body for one rule: this.matchesPattern(normalizedPath, pattern)
MatchesPatternCall ==
    /\ pin.fn = "ignore" /\ pout = NoResult
    /\ pout' = [excluded |-> matchesPattern(pin.path, pin.pattern)]
    /\ UNCHANGED <<pin, ToolVars, SessionVars>>

InitIgnore ==
    /\ pin \in IgnoreInputs
    /\ pout = NoResult
    /\ ToolsIdle
    /\ SessionsIdle

NextIgnore == MatchesPatternCall

SpecIgnore == InitIgnore /\ [][NextIgnore]_vars

-----------------------------------------------------------------------------
(* Properties of the ignore engine under SpecIgnore                        *)

Tried == pin.fn = "ignore" /\ pout # NoResult

IsAnchored(pattern) == StartsWith(pattern, <<SLASH>>)
IsDirectoryRule(pattern) == EndsWith(pattern, <<SLASH>>)
HasWildcard(pattern) == \E i \in DOMAIN pattern : pattern[i] \in {"*", "?"}

\* the pattern without its leading and its trailing slash
RuleName(pattern) ==
    Slice(pattern, IF IsAnchored(pattern) THEN 1 ELSE 0,
          IF IsDirectoryRule(pattern) THEN Len(pattern) - 1 ELSE Len(pattern))

\* the text s is what the name g stands for: ** any run of characters, * any
\* run without a slash, ? one character that is not a slash
RECURSIVE Glob(_, _)
Glob(g, s) ==
    IF g = <<>> THEN s = <<>>
    ELSE IF Len(g) >= 2 /\ g[1] = "*" /\ g[2] = "*"
         THEN \E k \in 0..Len(s) : Glob(SliceFrom(g, 2), SliceFrom(s, k))
    ELSE IF g[1] = "*"
         THEN \E k \in 0..Len(s) :
                 /\ \A m \in 1..k : s[m] # SLASH
                 /\ Glob(Tail(g), SliceFrom(s, k))
    ELSE IF g[1] = "?"
         THEN s # <<>> /\ s[1] # SLASH /\ Glob(Tail(g), Tail(s))
    ELSE s # <<>> /\ s[1] = g[1] /\ Glob(Tail(g), Tail(s))

\* the rule excludes the path: its name stands for a part of the path that
\* begins at the root, or at any segment boundary when the rule is not
\* anchored, and ends at the path's end, or before a slash when the rule is a
\* directory rule
Excludes(pattern, path) ==
    \E i \in 0..Len(path), j \in 0..Len(path) :
        /\ i <= j
        /\ i = 0 \/ (~IsAnchored(pattern) /\ path[i] = SLASH)
        /\ j = Len(path) \/ (IsDirectoryRule(pattern) /\ path[j + 1] = SLASH)
        /\ Glob(RuleName(pattern), Slice(path, i, j))

\* C19 as the specification states it: a rule without wildcards that has no
\* leading slash matches starting at any segment boundary of the path, and one
\* with a leading slash matches only starting at the vault root; so /pr/
\* excludes pr/n and not a/pr/n, and pr/ excludes both.
C19_Anchoring ==
    (Tried /\ ~HasWildcard(pin.pattern)) =>
        pout.excluded = Excludes(pin.pattern, pin.path)

\* C20 as the specification states it: a rule ending in a slash excludes the
\* directory it names and every path beneath it; * stands for any run of
\* characters inside one segment, ** for a run across segments, ? for one
\* character that is not a slash.
C20_WildcardsAndDirectories ==
    (Tried /\ (HasWildcard(pin.pattern) \/ IsDirectoryRule(pin.pattern))) =>
        pout.excluded = Excludes(pin.pattern, pin.path)

====
